---- MODULE Spec2Model ----
(***************************************************************************)
(* The in-memory record store of the e-commerce API and the order          *)
(* lifecycle built on it: products, orders, and the route handlers that    *)
(* read and write them.  One action is one HTTP request handled to         *)
(* completion (single-threaded request handling).                          *)
(*                                                                         *)
(* Abstractions: generateId() yields a fresh id, modelled by a counter;    *)
(* new Date() is the token "server", a date supplied in a request body is  *)
(* the token "client"; records carry the fields the handlers below read    *)
(* or the claims speak of.                                                 *)
(***************************************************************************)
EXTENDS Integers, Sequences, FiniteSets, TLC

VARIABLES
  products,      \* database.products
  orders,        \* database.orders
  payments,      \* database.payments
  shipments,     \* database.shipments
  carts,         \* database.carts
  decremented,   \* history: for each order, the items its creation took from stock
  age,           \* for each payment, the time since its createdAt, in clock ticks
  totals,        \* the line items last priced and what calculateTotal returned
  reviews,       \* database.reviews
  users,         \* database.users
  sent,          \* the user records in the data of the last user route response
  categories,    \* database.categories
  pending,       \* buildCategoryTree: the buildCategoryNode calls still to make
  tree,          \* buildCategoryTree: the ids of the nodes built, in call order, the
                 \* data of the response to GET /api/categories/tree
  generated,     \* how many ids generateId has made for reviews, users and categories
  store,         \* a collection of the record store, and what the last call returned
  response       \* the last response: HTTP status and message

vars == <<products, orders, payments, shipments, carts, decremented, age, totals,
          reviews, users, sent, categories, pending, tree, generated, store, response>>

\* The collections the order and product handlers never touch.
fulfilment == <<payments, shipments, age>>

\* What the order, product, payment and shipment handlers never touch.
aside == <<carts, totals, reviews, users, sent, categories, pending, tree, generated, store>>

(* ------------------------------ bounds --------------------------------- *)

\* Most orders ever created.
MaxOrders == 2

\* Largest stock a request may set; the seed stock of every product.
MaxStock == 2

\* Most payments ever stored.
MaxPayments == 1

\* Most shipments ever stored.
MaxShipments == 1

\* Most tracking events of one shipment.
MaxEvents == 3

\* Most records in the collection of the record store.
MaxRecords == 3

\* Most ids generated for users, the two seeded users included.
MaxUsers == 3

\* Most ids generated for categories, the two seeded categories included.
MaxCategories == 3

\* Most calls of buildCategoryNode in the building of one tree.
MaxNodes == 4

\* Most reviews created.
MaxReviews == 2

\* Most times one review is marked helpful.
MaxHelpful == 1

\* Most line items priced in one call.
MaxLines == 2

\* Largest quantity a cart line is merged up to.
MaxQuantity == 3

\* Oldest a payment grows, in clock ticks: 31 days and a half.
MaxAge == 63

(* ------------------------------ values --------------------------------- *)

OrderStatuses == {"pending", "confirmed", "processing", "shipped", "delivered", "cancelled"}

\* Ids the callers of the record store give with their data.
StoreGivenIds == <<1>>

\* Ids of the seeded products, and an id no product has.
SeedProductIds == <<1, 2>>
UnknownProductId == {3}

\* res.status(code).json(formatResponse(data, message)) and
\* res.status(code).json(formatErrorResponse({ message }, code)): the status and
\* the message.  A message the code builds from request data (the JSON of the
\* validation errors, a product's id or name) is the text around that data.
Reply(code, message) == [status |-> code, message |-> message]

\* Before the first request.
NoResponse == {Reply(0, "")}

(* ---------------------------- record store ----------------------------- *)

\* records.findIndex(record => record.id === id), 1-based, 0 for -1
FindIndex(records, id) ==
  IF \E i \in 1..Len(records) : records[i].id = id
  THEN CHOOSE i \in 1..Len(records) :
         /\ records[i].id = id
         /\ \A j \in 1..(i - 1) : records[j].id # id
  ELSE 0

\* { ...a, ...b }
Spread(a, b) ==
  [f \in DOMAIN a \cup DOMAIN b |-> IF f \in DOMAIN b THEN b[f] ELSE a[f]]

\* the collection after updateRecord(collection, id, updates)
UpdateRecord(records, id, updates) ==
  LET index == FindIndex(records, id) IN
  IF index # 0
  THEN [records EXCEPT ![index] = Spread(Spread(@, updates), [updatedAt |-> "server"])]
  ELSE records

\* the collection after insertRecord(collection, data)
InsertRecord(records, data) ==
  Append(records, Spread(data, [createdAt |-> "server"]))

\* deleteRecord removing every record of the id
DeleteRecordEvery(records, id) ==
  SelectSeq(records, LAMBDA record : record.id # id)

\* the collection after deleteRecord(collection, id)
DeleteRecord(records, id) ==
  LET index == FindIndex(records, id) IN
  IF index # 0
  THEN [i \in 1..(Len(records) - 1) |-> IF i < index THEN records[i] ELSE records[i + 1]]
  ELSE records

(* ------------------------- record store calls --------------------------- *)

\* null, as updateRecord and deleteRecord return it
Null == [null |-> TRUE]

\* what updateRecord(collection, id, updates) returns
UpdateRecordReturn(records, id, updates) ==
  IF FindIndex(records, id) # 0
  THEN UpdateRecord(records, id, updates)[FindIndex(records, id)]
  ELSE Null

\* what deleteRecord(collection, id) returns
DeleteRecordReturn(records, id) ==
  IF FindIndex(records, id) # 0 THEN records[FindIndex(records, id)] ELSE Null

\* What the calls on the collection of the record store never touch.
notStore == <<products, orders, payments, shipments, carts, decremented, age, totals,
              reviews, users, sent, categories, pending, tree, generated, response>>

\* insertRecord(collection, data): the id of the data, or a generated one
StoreInsert(data) ==
  /\ Len(store.records) < MaxRecords
  /\ store' = [ records |-> InsertRecord(store.records,
                              IF "id" \in DOMAIN data
                              THEN data
                              ELSE Spread(data, [id |-> Len(StoreGivenIds) + store.made + 1])),
                made |-> IF "id" \in DOMAIN data THEN store.made ELSE store.made + 1,
                returned |-> Null ]
  /\ UNCHANGED notStore

\* updateRecord(collection, id, updates)
StoreUpdate(id, updates) ==
  /\ store' = [ records |-> UpdateRecord(store.records, id, updates),
                made |-> store.made,
                returned |-> UpdateRecordReturn(store.records, id, updates) ]
  /\ UNCHANGED notStore

\* deleteRecord(collection, id)
StoreDelete(id) ==
  /\ store' = [ records |-> DeleteRecord(store.records, id),
                made |-> store.made,
                returned |-> DeleteRecordReturn(store.records, id) ]
  /\ UNCHANGED notStore

(* ------------------------------- Init ---------------------------------- *)

createSampleProducts ==
  [i \in 1..Len(SeedProductIds) |->
     [id |-> SeedProductIds[i], categoryId |-> 1, stock |-> MaxStock]]

\* No parent: null, which no category has for its id.
NoParent == 0

\* createSampleCategories(): cat-1 and cat-2, with no parentId
createSampleCategories ==
  << [id |-> 1, name |-> "Electronics", description |-> "Electronic devices"],
     [id |-> 2, name |-> "Accessories", description |-> "Product accessories"] >>

\* Email addresses, shortened: john@example.com and admin@example.com of the
\* seeded users, an address of a new user, and text that is no address.
JohnEmail == <<"j", "@", "e", ".", "c">>
AdminEmail == <<"a", "@", "e", ".", "c">>
AnnEmail == <<"n", "@", "e", ".", "c">>
NoEmail == <<"n", "@", "e">>

\* createSampleUsers(): the seeded users have no password
createSampleUsers ==
  << [id |-> 1, email |-> JohnEmail, name |-> "John Doe", role |-> "customer"],
     [id |-> 2, email |-> AdminEmail, name |-> "Admin User", role |-> "admin"] >>

Init ==
  /\ products = createSampleProducts
  /\ orders = <<>>
  /\ payments = <<>>
  /\ shipments = <<>>
  /\ carts = <<>>
  /\ decremented = <<>>
  /\ age = <<>>
  /\ totals = <<>>
  /\ reviews = <<>>
  /\ users = createSampleUsers
  /\ sent = {}
  /\ categories = createSampleCategories
  /\ pending = <<>>
  /\ tree = <<>>
  /\ generated = [reviews |-> 0, users |-> Len(createSampleUsers),
                  categories |-> Len(createSampleCategories)]
  /\ store = [records |-> <<>>, made |-> 0, returned |-> [null |-> TRUE]]
  /\ response \in NoResponse

(* ----------------------------- validators ------------------------------ *)

validateRequiredField(body, field) ==
  field \in DOMAIN body /\ body[field] # ""

validateOrderItems(body) ==
  "items" \in DOMAIN body /\ Len(body.items) > 0

validateShippingAddress(body) ==
  /\ "shippingAddress" \in DOMAIN body
  /\ validateRequiredField(body.shippingAddress, "street")
  /\ validateRequiredField(body.shippingAddress, "city")
  /\ validateRequiredField(body.shippingAddress, "zipCode")

validateOrder(body) ==
  /\ validateRequiredField(body, "userId")
  /\ validateOrderItems(body)
  /\ validateShippingAddress(body)

(* --------------------------- order helpers ----------------------------- *)

\* The check were it to return after the first item.
validateStockAvailabilityFirstItem(prods, items) ==
  IF items = <<>> THEN [available |-> TRUE, message |-> ""]
  ELSE LET item == Head(items)
           index == FindIndex(prods, item.productId) IN
       IF index = 0 THEN [available |-> FALSE, message |-> "Product not found"]
       ELSE IF prods[index].stock < item.quantity
       THEN [available |-> FALSE, message |-> "Insufficient stock"]
       ELSE [available |-> TRUE, message |-> ""]

\* for (const item of items): the first failing item decides
RECURSIVE validateStockAvailability(_, _)
validateStockAvailability(prods, items) ==
  IF items = <<>> THEN [available |-> TRUE, message |-> ""]
  ELSE LET item == Head(items)
           index == FindIndex(prods, item.productId) IN
       IF index = 0 THEN [available |-> FALSE, message |-> "Product not found"]
       ELSE IF prods[index].stock < item.quantity
       THEN [available |-> FALSE, message |-> "Insufficient stock"]
       ELSE validateStockAvailability(prods, Tail(items))

enrichOrderItems(items) ==
  [i \in 1..Len(items) |-> items[i]]

buildOrderObject(body) ==
  [ id |-> Len(orders) + 1,
    userId |-> body.userId,
    items |-> enrichOrderItems(body.items),
    shippingAddress |-> body.shippingAddress,
    status |-> "pending",
    createdAt |-> "server" ]

\* The loop were it to read every stock before the first write.
RECURSIVE updateProductStockFrom(_, _, _)
updateProductStockFrom(read, prods, items) ==
  IF items = <<>> THEN prods
  ELSE LET item == Head(items)
           index == FindIndex(read, item.productId) IN
       updateProductStockFrom(read,
         IF index # 0
         THEN UpdateRecord(prods, read[index].id, [stock |-> read[index].stock - item.quantity])
         ELSE prods,
         Tail(items))

updateProductStockStaleRead(prods, items) ==
  updateProductStockFrom(prods, prods, items)

\* the products after updateProductStock(items): one read and one write per item
RECURSIVE updateProductStock(_, _)
updateProductStock(prods, items) ==
  IF items = <<>> THEN prods
  ELSE LET item == Head(items)
           index == FindIndex(prods, item.productId) IN
       updateProductStock(
         IF index # 0
         THEN UpdateRecord(prods, prods[index].id, [stock |-> prods[index].stock - item.quantity])
         ELSE prods,
         Tail(items))

\* the products after restoreProductStock(items)
RECURSIVE restoreProductStock(_, _)
restoreProductStock(prods, items) ==
  IF items = <<>> THEN prods
  ELSE LET item == Head(items)
           index == FindIndex(prods, item.productId) IN
       restoreProductStock(
         IF index # 0
         THEN UpdateRecord(prods, prods[index].id, [stock |-> prods[index].stock + item.quantity])
         ELSE prods,
         Tail(items))

\* The check were an order modifiable until it ships.
canModifyOrderUntilShipped(order) ==
  order.status \notin {"shipped", "delivered"}

canModifyOrder(order) ==
  order.status \in {"pending", "confirmed"}

filterOrderUpdates(updates) ==
  [f \in DOMAIN updates \ {"id", "createdAt"} |-> updates[f]]

getValidTransitions ==
  [ pending |-> {"confirmed", "cancelled"},
    confirmed |-> {"processing", "cancelled"},
    processing |-> {"shipped", "cancelled"},
    shipped |-> {"delivered"},
    delivered |-> {},
    cancelled |-> {} ]

\* Names every object inherits from Object.prototype: a status that is one of
\* them finds in the table not a list but a function.
InheritedProperties == {"constructor"}

\* transitions[current]?.includes(newStatus) throws a TypeError when
\* transitions[current] is neither a list nor undefined.
isValidStatusTransitionThrows(current) ==
  current \in InheritedProperties

\* transitions[current]?.includes(newStatus) || false, when it does not throw
isValidStatusTransition(current, newStatus) ==
  IF current \in DOMAIN getValidTransitions
  THEN newStatus \in getValidTransitions[current]
  ELSE FALSE

\* The check were an order cancellable in every status but "delivered".
canCancelOrderUnlessDelivered(order) ==
  order.status # "delivered"

canCancelOrder(order) ==
  order.status \in {"pending", "confirmed", "processing"}

(* --------------------------- order handlers ---------------------------- *)

\* POST /api/orders
CreateOrder(body) ==
  IF ~validateOrder(body) THEN
    /\ response' = Reply(400, "Validation failed")
    /\ UNCHANGED <<products, orders, decremented, fulfilment, aside>>
  ELSE IF ~validateStockAvailability(products, body.items).available THEN
    /\ response' = Reply(400, validateStockAvailability(products, body.items).message)
    /\ UNCHANGED <<products, orders, decremented, fulfilment, aside>>
  ELSE
    /\ Len(orders) < MaxOrders
    /\ orders' = InsertRecord(orders, buildOrderObject(body))
    /\ products' = updateProductStock(products, orders'[Len(orders')].items)
    /\ decremented' = Append(decremented, body.items)
    /\ response' = Reply(201, "Order created successfully")
    /\ UNCHANGED <<fulfilment, aside>>

\* PUT /api/orders/:id
UpdateOrder(id, updates) ==
  LET index == FindIndex(orders, id) IN
  IF index = 0 THEN
    /\ response' = Reply(404, "Order not found")
    /\ UNCHANGED <<products, orders, decremented, fulfilment, aside>>
  ELSE IF ~canModifyOrder(orders[index]) THEN
    /\ response' = Reply(400, "Order cannot be modified")
    /\ UNCHANGED <<products, orders, decremented, fulfilment, aside>>
  ELSE
    /\ orders' = UpdateRecord(orders, id, filterOrderUpdates(updates))
    /\ response' = Reply(200, "Order updated")
    /\ UNCHANGED <<products, decremented, fulfilment, aside>>

\* PATCH /api/orders/:id/status
PatchOrderStatus(id, status) ==
  LET index == FindIndex(orders, id) IN
  IF index = 0 THEN
    /\ response' = Reply(404, "Order not found")
    /\ UNCHANGED <<products, orders, decremented, fulfilment, aside>>
  ELSE IF isValidStatusTransitionThrows(orders[index].status) THEN
    \* the exception leaves the handler; the framework answers 500
    /\ response' = Reply(500, "Internal Server Error")
    /\ UNCHANGED <<products, orders, decremented, fulfilment, aside>>
  ELSE IF ~isValidStatusTransition(orders[index].status, status) THEN
    /\ response' = Reply(400, "Invalid status transition")
    /\ UNCHANGED <<products, orders, decremented, fulfilment, aside>>
  ELSE
    /\ orders' = UpdateRecord(orders, id, [status |-> status])
    /\ response' = Reply(200, "Order status updated")
    /\ UNCHANGED <<products, decremented, fulfilment, aside>>

\* POST /api/orders/:id/cancel
CancelOrder(id) ==
  LET index == FindIndex(orders, id) IN
  IF index = 0 THEN
    /\ response' = Reply(404, "Order not found")
    /\ UNCHANGED <<products, orders, decremented, fulfilment, aside>>
  ELSE IF ~canCancelOrder(orders[index]) THEN
    /\ response' = Reply(400, "Order cannot be cancelled")
    /\ UNCHANGED <<products, orders, decremented, fulfilment, aside>>
  ELSE
    /\ orders' = UpdateRecord(orders, id, [status |-> "cancelled"])
    /\ products' = restoreProductStock(products, orders[index].items)
    /\ response' = Reply(200, "Order cancelled")
    /\ UNCHANGED <<decremented, fulfilment, aside>>

(* -------------------------- product handlers --------------------------- *)

\* PUT /api/products/:id
UpdateProduct(id, updates) ==
  IF FindIndex(products, id) = 0 THEN
    /\ response' = Reply(404, "Product not found")
    /\ UNCHANGED <<products, orders, decremented, fulfilment, aside>>
  ELSE
    /\ products' = UpdateRecord(products, id, updates)
    /\ response' = Reply(200, "Product updated successfully")
    /\ UNCHANGED <<orders, decremented, fulfilment, aside>>

\* PATCH /api/products/:id/stock
PatchProductStock(id, quantity) ==
  IF FindIndex(products, id) = 0 THEN
    /\ response' = Reply(404, "Product not found")
    /\ UNCHANGED <<products, orders, decremented, fulfilment, aside>>
  ELSE
    /\ products' = UpdateRecord(products, id, [stock |-> quantity])
    /\ response' = Reply(200, "Stock updated")
    /\ UNCHANGED <<orders, decremented, fulfilment, aside>>

\* DELETE /api/products/:id
DeleteProduct(id) ==
  IF FindIndex(products, id) = 0 THEN
    /\ response' = Reply(404, "Product not found")
    /\ UNCHANGED <<products, orders, decremented, fulfilment, aside>>
  ELSE
    /\ products' = DeleteRecord(products, id)
    /\ response' = Reply(200, "Product deleted")
    /\ UNCHANGED <<orders, decremented, fulfilment, aside>>

(* -------------------------- payment handlers --------------------------- *)

\* A string a handler looks into is the sequence of its characters.
Chars(c, n) == [i \in 1..n |-> c]

Digits == {"0", "1", "2", "3", "4", "5", "6", "7", "8", "9"}

\* The month a request arrives in, as months since the year 2000.
ThisMonth == {12 * 26 + 11}

validatePaymentMethod(body) ==
  "method" \in DOMAIN body
  /\ body.method \in {"credit_card", "debit_card", "paypal", "bank_transfer"}

validatePaymentAmount(body) ==
  "amount" \in DOMAIN body /\ body.amount > 0

\* An id is a number here, so it is required as a field that is present.
validatePayment(body) ==
  /\ "orderId" \in DOMAIN body
  /\ validatePaymentMethod(body)
  /\ validatePaymentAmount(body)

\* The check were it on the length of the string as given.
isValidCardNumberUncleaned(cardNumber) ==
  Len(cardNumber) >= 13 /\ Len(cardNumber) <= 19

\* cardNumber.replace(/\D/g, '') has 13 to 19 characters
isValidCardNumber(cardNumber) ==
  LET cleaned == SelectSeq(cardNumber, LAMBDA c : c \in Digits) IN
  Len(cleaned) >= 13 /\ Len(cleaned) <= 19

\* new Date(2000 + year, month - 1), the first instant of that month, is after now
isValidExpiryDate(expiryDate) ==
  \A now \in ThisMonth : 12 * expiryDate.year + expiryDate.month > now

\* /^\d{3,4}$/
isValidCVV(cvv) ==
  Len(cvv) \in {3, 4} /\ \A i \in 1..Len(cvv) : cvv[i] \in Digits

validateCardDetails(body) ==
  IF ~("cardNumber" \in DOMAIN body /\ body.cardNumber # <<>>
       /\ isValidCardNumber(body.cardNumber))
  THEN [valid |-> FALSE, message |-> "Invalid card number"]
  ELSE IF ~("expiryDate" \in DOMAIN body /\ isValidExpiryDate(body.expiryDate))
  THEN [valid |-> FALSE, message |-> "Invalid expiry date"]
  ELSE IF ~("cvv" \in DOMAIN body /\ body.cvv # <<>> /\ isValidCVV(body.cvv))
  THEN [valid |-> FALSE, message |-> "Invalid CVV"]
  ELSE [valid |-> TRUE, message |-> ""]

validatePaymentDetails(body) ==
  IF body.method \in {"credit_card", "debit_card"}
  THEN validateCardDetails(body)
  ELSE [valid |-> TRUE, message |-> ""]

\* `****-****-****-${cardNumber.slice(-4)}`
maskCardNumber(cardNumber) ==
  <<"****-****-****-">> \o
  SubSeq(cardNumber, IF Len(cardNumber) > 4 THEN Len(cardNumber) - 3 ELSE 1, Len(cardNumber))

buildPaymentRecord(body) ==
  Spread(
    [ id |-> Len(payments) + 1,
      orderId |-> body.orderId,
      method |-> body.method,
      amount |-> body.amount,
      status |-> "completed",
      createdAt |-> "server" ],
    IF "cardNumber" \in DOMAIN body /\ body.cardNumber # <<>>
    THEN [cardNumber |-> maskCardNumber(body.cardNumber)]
    ELSE <<>>)

\* POST /api/payments
ProcessPayment(body) ==
  IF ~validatePayment(body) THEN
    /\ response' = Reply(400, "Validation failed")
    /\ UNCHANGED <<products, orders, decremented, fulfilment, aside>>
  ELSE IF FindIndex(orders, body.orderId) = 0 THEN
    /\ response' = Reply(404, "Order not found")
    /\ UNCHANGED <<products, orders, decremented, fulfilment, aside>>
  ELSE IF ~validatePaymentDetails(body).valid THEN
    /\ response' = Reply(400, validatePaymentDetails(body).message)
    /\ UNCHANGED <<products, orders, decremented, fulfilment, aside>>
  ELSE
    /\ Len(payments) < MaxPayments
    /\ payments' = Append(payments, buildPaymentRecord(body))
    /\ orders' = UpdateRecord(orders, body.orderId, [paymentStatus |-> "paid"])
    /\ age' = Append(age, 0)
    /\ response' = Reply(201, "Payment processed successfully")
    /\ UNCHANGED <<products, shipments, decremented, aside>>

(* --------------------------- refund handlers --------------------------- *)

\* Clock ticks in a day: time passes in half days.
TicksPerDay == 2

\* Math.floor(diff / (1000 * 60 * 60 * 24)) for the payment at index
calculateDaysSince(index) == age[index] \div TicksPerDay

\* The check were it on the status alone.
canRefundPaymentAnyAge(index) ==
  payments[index].status \in {"completed"}

canRefundPayment(index) ==
  /\ payments[index].status \in {"completed"}
  /\ calculateDaysSince(index) <= 30

\* The refund were it to take any amount.
processRefundAnyAmount(payment, body) ==
  [success |-> TRUE, message |-> ""]

\* amount || payment.amount, then the comparison with payment.amount
processRefund(payment, body) ==
  LET refundAmount == IF "amount" \in DOMAIN body /\ body.amount # 0
                      THEN body.amount ELSE payment.amount
  IN IF refundAmount > payment.amount
     THEN [success |-> FALSE, message |-> "Refund amount exceeds payment amount"]
     ELSE [success |-> TRUE, message |-> ""]

updatePaymentStatus(id, status) ==
  LET index == FindIndex(payments, id) IN
  IF index # 0
  THEN [payments EXCEPT ![index] = Spread(@, [status |-> status, updatedAt |-> "server"])]
  ELSE payments

\* POST /api/payments/:id/refund
RefundPayment(id, body) ==
  LET index == FindIndex(payments, id) IN
  IF index = 0 THEN
    /\ response' = Reply(404, "Payment not found")
    /\ UNCHANGED <<products, orders, decremented, fulfilment, aside>>
  ELSE IF ~canRefundPayment(index) THEN
    /\ response' = Reply(400, "Payment cannot be refunded")
    /\ UNCHANGED <<products, orders, decremented, fulfilment, aside>>
  ELSE IF ~processRefund(payments[index], body).success THEN
    /\ response' = Reply(400, processRefund(payments[index], body).message)
    /\ UNCHANGED <<products, orders, decremented, fulfilment, aside>>
  ELSE
    /\ payments' = updatePaymentStatus(id, "refunded")
    /\ response' = Reply(200, "Refund processed successfully")
    /\ UNCHANGED <<products, orders, shipments, age, decremented, aside>>

\* Half a day passes.
Tick ==
  /\ age # <<>>
  /\ \A i \in 1..Len(age) : age[i] < MaxAge
  /\ age' = [i \in 1..Len(age) |-> age[i] + 1]
  /\ UNCHANGED <<products, orders, payments, shipments, decremented, aside, response>>

(* -------------------------- shipment handlers -------------------------- *)

validateShipmentData(body) ==
  IF "orderId" \notin DOMAIN body
  THEN [valid |-> FALSE, message |-> "Order ID is required"]
  ELSE IF ~validateRequiredField(body, "carrier")
  THEN [valid |-> FALSE, message |-> "Carrier is required"]
  ELSE [valid |-> TRUE, message |-> ""]

getStatusDescription(status) ==
  LET descriptions ==
        [ created |-> "Shipment created",
          picked_up |-> "Package picked up",
          in_transit |-> "Package in transit",
          out_for_delivery |-> "Out for delivery",
          delivered |-> "Package delivered" ] IN
  IF status \in DOMAIN descriptions THEN descriptions[status] ELSE status

createTrackingEvent(status, description, location) ==
  [status |-> status, description |-> description, location |-> location, timestamp |-> "server"]

buildShipmentObject(body, order) ==
  [ id |-> Len(shipments) + 1,
    orderId |-> body.orderId,
    carrier |-> body.carrier,
    trackingNumber |-> Len(shipments) + 1,
    status |-> "created",
    destination |-> order.shippingAddress,
    trackingEvents |-> <<createTrackingEvent("created", "Shipment created", "Warehouse")>>,
    createdAt |-> "server" ]

\* updateOrderShippingStatus writing the order's status field
updateOrderShippingStatusAsStatus(orderId, status) ==
  UpdateRecord(orders, orderId, [status |-> status])

\* the orders after updateOrderShippingStatus(orderId, status)
updateOrderShippingStatus(orderId, status) ==
  UpdateRecord(orders, orderId, [shippingStatus |-> status])

\* POST /api/shipping
CreateShipment(body) ==
  IF ~validateShipmentData(body).valid THEN
    /\ response' = Reply(400, validateShipmentData(body).message)
    /\ UNCHANGED <<products, orders, decremented, fulfilment, aside>>
  ELSE IF FindIndex(orders, body.orderId) = 0 THEN
    /\ response' = Reply(404, "Order not found")
    /\ UNCHANGED <<products, orders, decremented, fulfilment, aside>>
  ELSE
    /\ Len(shipments) < MaxShipments
    /\ shipments' = Append(shipments, buildShipmentObject(body, orders[FindIndex(orders, body.orderId)]))
    /\ orders' = updateOrderShippingStatus(body.orderId, "shipped")
    /\ response' = Reply(201, "Shipment created")
    /\ UNCHANGED <<products, payments, age, decremented, aside>>

\* updateShipmentStatus keeping only the latest tracking event
updateShipmentStatusLatestOnly(id, body) ==
  LET index == FindIndex(shipments, id)
      event == createTrackingEvent(body.status, getStatusDescription(body.status),
                 IF validateRequiredField(body, "location") THEN body.location ELSE "Unknown") IN
  [shipments EXCEPT ![index] =
     Spread(@, [ status |-> body.status,
                 trackingEvents |-> <<event>>,
                 updatedAt |-> "server" ])]

\* the shipments after updateShipmentStatus(id, status, location)
updateShipmentStatus(id, body) ==
  LET index == FindIndex(shipments, id)
      event == createTrackingEvent(body.status, getStatusDescription(body.status),
                 IF validateRequiredField(body, "location") THEN body.location ELSE "Unknown") IN
  [shipments EXCEPT ![index] =
     Spread(@, [ status |-> body.status,
                 trackingEvents |-> Append(@.trackingEvents, event),
                 updatedAt |-> "server" ])]

\* PATCH /api/shipping/:id/status
PatchShipmentStatus(id, body) ==
  LET index == FindIndex(shipments, id) IN
  IF index = 0 THEN
    /\ response' = Reply(404, "Shipment not found")
    /\ UNCHANGED <<products, orders, decremented, fulfilment, aside>>
  ELSE
    /\ Len(shipments[index].trackingEvents) < MaxEvents
    /\ shipments' = updateShipmentStatus(id, body)
    /\ orders' = IF body.status = "delivered"
                  THEN updateOrderShippingStatus(shipments[index].orderId, "delivered")
                  ELSE orders
    /\ response' = Reply(200, "Shipment status updated")
    /\ UNCHANGED <<products, payments, age, decremented, aside>>

(* ---------------------------- cart handlers ---------------------------- *)

\* carts.find(cart => cart.userId === userId): the index of the first cart of
\* the user, 0 when there is none.
getCartByUserId(cs, userId) ==
  IF \E i \in 1..Len(cs) : cs[i].userId = userId
  THEN CHOOSE i \in 1..Len(cs) :
         /\ cs[i].userId = userId
         /\ \A j \in 1..(i - 1) : cs[j].userId # userId
  ELSE 0

buildEmptyCart(cs, userId) ==
  [ id |-> Len(cs) + 1, userId |-> userId, items |-> <<>>,
    createdAt |-> "server", updatedAt |-> "server" ]

\* database.carts.push(cart)
createEmptyCart(cs, userId) == Append(cs, buildEmptyCart(cs, userId))

\* cart.items.findIndex(item => item.productId === productId), 0 for -1
findCartItem(cart, productId) ==
  IF \E k \in 1..Len(cart.items) : cart.items[k].productId = productId
  THEN CHOOSE k \in 1..Len(cart.items) :
         /\ cart.items[k].productId = productId
         /\ \A j \in 1..(k - 1) : cart.items[j].productId # productId
  ELSE 0

checkStockAvailable(product, quantity) == product.stock >= quantity

buildCartItem(product, quantity) ==
  [ productId |-> product.id, quantity |-> quantity, addedAt |-> "server" ]

\* the carts after updateExistingCartItem on the cart at index c, whose line
\* for the product is at index k # 0
updateExistingCartItem(cs, c, k, newQuantity) ==
  [cs EXCEPT ![c].items[k].quantity = newQuantity, ![c].updatedAt = "server"]

addNewCartItem(cs, c, product, quantity) ==
  [cs EXCEPT ![c].items = Append(@, buildCartItem(product, quantity)),
             ![c].updatedAt = "server"]

\* The line would be pushed whether or not the cart has one for the product.
addItemToCartNoMerge(cs, userId, product, quantity) ==
  LET withCart == IF getCartByUserId(cs, userId) = 0
                  THEN createEmptyCart(cs, userId) ELSE cs
      c == getCartByUserId(withCart, userId)
  IN addNewCartItem(withCart, c, product, quantity)

addItemToCart(cs, userId, product, quantity) ==
  LET withCart == IF getCartByUserId(cs, userId) = 0
                  THEN createEmptyCart(cs, userId) ELSE cs
      c == getCartByUserId(withCart, userId)
      k == findCartItem(withCart[c], product.id)
  IN IF k # 0
     THEN updateExistingCartItem(withCart, c, k, withCart[c].items[k].quantity + quantity)
     ELSE addNewCartItem(withCart, c, product, quantity)

filterOutItem(items, productId) ==
  SelectSeq(items, LAMBDA item : item.productId # productId)

removeCartItem(cs, userId, productId) ==
  LET c == getCartByUserId(cs, userId) IN
  IF c = 0 THEN createEmptyCart(cs, userId)
  ELSE [cs EXCEPT ![c].items = filterOutItem(@, productId), ![c].updatedAt = "server"]

\* The cart would be replaced by pushing a new one.
clearCartByNewCart(cs, userId) == createEmptyCart(cs, userId)

clearCart(cs, userId) ==
  LET c == getCartByUserId(cs, userId) IN
  IF c = 0 THEN createEmptyCart(cs, userId)
  ELSE [cs EXCEPT ![c].items = <<>>, ![c].updatedAt = "server"]

\* cart.items[itemIndex].quantity = newQuantity with itemIndex -1: the cart has
\* no line for the product and the assignment throws a TypeError.
updateCartItemQuantityThrows(cs, userId, productId, quantity) ==
  LET c == getCartByUserId(cs, userId) IN
  c # 0 /\ quantity > 0 /\ findCartItem(cs[c], productId) = 0

\* the carts after updateCartItemQuantity, when it does not throw
updateCartItemQuantity(cs, userId, productId, quantity) ==
  LET c == getCartByUserId(cs, userId) IN
  IF c = 0 THEN createEmptyCart(cs, userId)
  ELSE IF quantity <= 0 THEN removeCartItem(cs, userId, productId)
  ELSE updateExistingCartItem(cs, c, findCartItem(cs[c], productId), quantity)

validateItemStock(item) ==
  LET index == FindIndex(products, item.productId) IN
  IF index = 0 THEN [valid |-> FALSE, message |-> "Product no longer available"]
  ELSE IF products[index].stock < item.quantity
  THEN [valid |-> FALSE, message |-> "Insufficient stock for"]
  ELSE [valid |-> TRUE, message |-> ""]

\* The check were it to look at the first line only.
validateCartForCheckoutFirstLine(items) ==
  IF items = <<>> THEN [valid |-> TRUE, message |-> ""]
  ELSE validateItemStock(Head(items))

\* for (const item of cart.items): the first failing line decides
RECURSIVE validateCartForCheckout(_)
validateCartForCheckout(items) ==
  IF items = <<>> THEN [valid |-> TRUE, message |-> ""]
  ELSE IF ~validateItemStock(Head(items)).valid THEN validateItemStock(Head(items))
  ELSE validateCartForCheckout(Tail(items))

\* What the cart handlers never touch.
notCarts == <<orders, payments, shipments, decremented, age, totals,
              reviews, users, sent, categories, pending, tree, generated, store>>

\* GET /api/cart/:userId
GetCart(userId) ==
  /\ carts' = IF getCartByUserId(carts, userId) = 0
              THEN createEmptyCart(carts, userId) ELSE carts
  /\ response' = Reply(200, "Cart retrieved")
  /\ UNCHANGED <<products, notCarts>>

\* POST /api/cart/:userId/items
AddCartItem(userId, body) ==
  LET index == FindIndex(products, body.productId) IN
  IF index = 0 THEN
    /\ response' = Reply(404, "Product not found")
    /\ UNCHANGED <<products, carts, notCarts>>
  ELSE IF ~checkStockAvailable(products[index], body.quantity) THEN
    /\ response' = Reply(400, "Insufficient stock")
    /\ UNCHANGED <<products, carts, notCarts>>
  ELSE
    /\ carts' = addItemToCart(carts, userId, products[index], body.quantity)
    /\ \A c \in 1..Len(carts') : \A k \in 1..Len(carts'[c].items) :
         carts'[c].items[k].quantity <= MaxQuantity
    /\ response' = Reply(200, "Item added to cart")
    /\ UNCHANGED <<products, notCarts>>

\* PUT /api/cart/:userId/items/:productId
UpdateCartItem(userId, productId, quantity) ==
  LET index == FindIndex(products, productId) IN
  IF index = 0 THEN
    /\ response' = Reply(404, "Product not found")
    /\ UNCHANGED <<products, carts, notCarts>>
  ELSE IF ~checkStockAvailable(products[index], quantity) THEN
    /\ response' = Reply(400, "Insufficient stock")
    /\ UNCHANGED <<products, carts, notCarts>>
  ELSE IF updateCartItemQuantityThrows(carts, userId, productId, quantity) THEN
    \* the exception leaves the handler; the framework answers 500
    /\ response' = Reply(500, "Internal Server Error")
    /\ UNCHANGED <<products, carts, notCarts>>
  ELSE
    /\ carts' = updateCartItemQuantity(carts, userId, productId, quantity)
    /\ response' = Reply(200, "Cart item updated")
    /\ UNCHANGED <<products, notCarts>>

\* DELETE /api/cart/:userId/items/:productId
RemoveCartItem(userId, productId) ==
  /\ carts' = removeCartItem(carts, userId, productId)
  /\ response' = Reply(200, "Item removed from cart")
  /\ UNCHANGED <<products, notCarts>>

\* DELETE /api/cart/:userId
ClearCart(userId) ==
  /\ carts' = clearCart(carts, userId)
  /\ response' = Reply(200, "Cart cleared")
  /\ UNCHANGED <<products, notCarts>>

\* POST /api/cart/:userId/checkout
Checkout(userId) ==
  LET c == getCartByUserId(carts, userId) IN
  IF c = 0 \/ carts[c].items = <<>> THEN
    /\ response' = Reply(400, "Cart is empty")
    /\ UNCHANGED <<products, carts, notCarts>>
  ELSE IF ~validateCartForCheckout(carts[c].items).valid THEN
    /\ response' = Reply(400, validateCartForCheckout(carts[c].items).message)
    /\ UNCHANGED <<products, carts, notCarts>>
  ELSE
    \* prepareCheckoutData reads the cart and the products
    /\ response' = Reply(200, "Ready for checkout")
    /\ UNCHANGED <<products, carts, notCarts>>

(* --------------------------- review handlers --------------------------- *)

\* A userId that is the JSON number 0: no string, and falsy.  It is written as
\* a string of the model so that it compares with every other userId.
NumberZero == "number 0"

\* value || ''
OrEmpty(value) == IF value \in {"", NumberZero} THEN "" ELSE value

\* Ratings are written in tenths: 37 is 3.7.
Tenths == 10

\* parseInt(String(rating)) of a rating >= 0, in tenths: the fraction is dropped
parseIntRating(rating) == (rating \div Tenths) * Tenths

validateRating(body) ==
  /\ "rating" \in DOMAIN body
  /\ parseIntRating(body.rating) \in (1 * Tenths)..(5 * Tenths)

validateReviewData(body) ==
  IF ~validateRequiredField(body, "userId")
  THEN [valid |-> FALSE, message |-> "User ID is required"]
  ELSE IF "productId" \notin DOMAIN body
  THEN [valid |-> FALSE, message |-> "Product ID is required"]
  ELSE IF ~validateRating(body)
  THEN [valid |-> FALSE, message |-> "Rating must be between 1 and 5"]
  ELSE [valid |-> TRUE, message |-> ""]

\* reviews.find(r => r.id === id): the index of the review, 0 when there is none
getReviewById(id) == FindIndex(reviews, id)

checkExistingReview(userId, productId) ==
  \E i \in 1..Len(reviews) :
    reviews[i].userId = userId /\ reviews[i].productId = productId

buildReviewObject(body) ==
  [ id |-> generated.reviews + 1,
    userId |-> OrEmpty(body.userId),
    productId |-> body.productId,
    rating |-> parseIntRating(body.rating),
    content |-> IF "content" \in DOMAIN body THEN OrEmpty(body.content) ELSE "",
    helpfulCount |-> 0,
    createdAt |-> "server",
    updatedAt |-> "server" ]

filterReviewUpdates(updates) ==
  [f \in DOMAIN updates \ {"id", "userId", "productId", "createdAt"} |-> updates[f]]

\* the reviews after updateReviewData(id, updates)
updateReviewData(id, updates) ==
  [reviews EXCEPT ![getReviewById(id)] =
     Spread(Spread(@, filterReviewUpdates(updates)), [updatedAt |-> "server"])]

\* the reviews after removeReview(id)
removeReview(id) ==
  LET index == getReviewById(id) IN
  [i \in 1..(Len(reviews) - 1) |-> IF i < index THEN reviews[i] ELSE reviews[i + 1]]

RECURSIVE SumRatings(_)
SumRatings(rs) ==
  IF rs = <<>> THEN 0 ELSE rs[1].rating + SumRatings(Tail(rs))

\* Math.round((sum / reviews.length) * 10) / 10, in tenths
calculateAverageRating(rs) ==
  (2 * SumRatings(rs) + Len(rs)) \div (2 * Len(rs))

filterReviewsByProduct(rs, productId) ==
  SelectSeq(rs, LAMBDA r : r.productId = productId)

calculateReviewStats(rs) ==
  IF Len(rs) = 0
  THEN [totalReviews |-> 0, averageRating |-> 0]
  ELSE [totalReviews |-> Len(rs), averageRating |-> calculateAverageRating(rs)]

\* the products after updateProductRating(productId), the reviews being rs
updateProductRating(rs, productId) ==
  LET stats == calculateReviewStats(filterReviewsByProduct(rs, productId)) IN
  UpdateRecord(products, productId,
               [averageRating |-> stats.averageRating, reviewCount |-> stats.totalReviews])

\* What the review handlers never touch.
notReviews == <<orders, payments, shipments, carts, decremented, age, totals,
                users, sent, categories, pending, tree, store>>

\* GET /api/reviews/:id
GetReview(id) ==
  /\ response' = IF getReviewById(id) = 0
                 THEN Reply(404, "Review not found")
                 ELSE Reply(200, "Review retrieved")
  /\ UNCHANGED <<products, reviews, generated, notReviews>>

\* POST /api/reviews
CreateReview(body) ==
  IF ~validateReviewData(body).valid THEN
    /\ response' = Reply(400, validateReviewData(body).message)
    /\ UNCHANGED <<products, reviews, generated, notReviews>>
  ELSE IF checkExistingReview(body.userId, body.productId) THEN
    /\ response' = Reply(409, "User already reviewed this product")
    /\ UNCHANGED <<products, reviews, generated, notReviews>>
  ELSE
    /\ generated.reviews < MaxReviews
    /\ reviews' = Append(reviews, buildReviewObject(body))
    /\ generated' = [generated EXCEPT !.reviews = @ + 1]
    /\ products' = updateProductRating(reviews', body.productId)
    /\ response' = Reply(201, "Review created")
    /\ UNCHANGED notReviews

\* PUT /api/reviews/:id
UpdateReview(id, body) ==
  IF getReviewById(id) = 0 THEN
    /\ response' = Reply(404, "Review not found")
    /\ UNCHANGED <<products, reviews, generated, notReviews>>
  ELSE
    /\ reviews' = updateReviewData(id, body)
    /\ products' = updateProductRating(reviews', reviews[getReviewById(id)].productId)
    /\ response' = Reply(200, "Review updated")
    /\ UNCHANGED <<generated, notReviews>>

\* DELETE /api/reviews/:id
DeleteReview(id) ==
  IF getReviewById(id) = 0 THEN
    /\ response' = Reply(404, "Review not found")
    /\ UNCHANGED <<products, reviews, generated, notReviews>>
  ELSE
    /\ reviews' = removeReview(id)
    /\ products' = updateProductRating(reviews', reviews[getReviewById(id)].productId)
    /\ response' = Reply(200, "Review deleted")
    /\ UNCHANGED <<generated, notReviews>>

\* POST /api/reviews/:id/helpful
MarkReviewHelpful(id) ==
  IF getReviewById(id) = 0 THEN
    /\ response' = Reply(404, "Review not found")
    /\ UNCHANGED <<products, reviews, generated, notReviews>>
  ELSE
    /\ reviews[getReviewById(id)].helpfulCount < MaxHelpful
    /\ reviews' = [reviews EXCEPT ![getReviewById(id)].helpfulCount = @ + 1]
    /\ response' = Reply(200, "Review marked as helpful")
    /\ UNCHANGED <<products, generated, notReviews>>

(* ---------------------------- user handlers ---------------------------- *)

\* /^[^\s@]+@[^\s@]+\.[^\s@]+$/ : one @, not first; after it a dot that is
\* neither next to it nor last; no white space
validateEmailFormat(email) ==
  \E a, d \in 1..Len(email) :
    /\ email[a] = "@" /\ email[d] = "."
    /\ 1 < a /\ a + 1 < d /\ d < Len(email)
    /\ \A i \in 1..Len(email) : email[i] # " " /\ (email[i] = "@" => i = a)

\* typeof password === 'string' && password.length >= 8
validatePassword(body) ==
  "password" \in DOMAIN body /\ Len(body.password) >= 8

validateUser(body) ==
  /\ "email" \in DOMAIN body /\ body.email # <<>> /\ validateEmailFormat(body.email)
  /\ validateRequiredField(body, "name")
  /\ validatePassword(body)

\* Buffer.from(password).toString('base64')
hashPassword(password) == [base64 |-> password]

\* users.find by id: the index of the user, 0 when there is none
getUserById(id) == FindIndex(users, id)

\* const { password, ...sanitized } = user
sanitizeUserData(user) ==
  [f \in DOMAIN user \ {"password"} |-> user[f]]

sanitizeUserList(us) == { sanitizeUserData(us[i]) : i \in 1..Len(us) }

checkEmailExists(email) ==
  \E i \in 1..Len(users) : users[i].email = email

buildUserObject(body) ==
  [ id |-> generated.users + 1,
    email |-> body.email,
    name |-> OrEmpty(body.name),
    password |-> hashPassword(body.password),
    role |-> "customer",
    addresses |-> <<>> ]

\* users.find(u => u.email === email), then the password check: the index of
\* the user, 0 for null
authenticateUser(email, password) ==
  IF ~checkEmailExists(email) THEN 0
  ELSE LET index == CHOOSE i \in 1..Len(users) :
                      /\ users[i].email = email
                      /\ \A j \in 1..(i - 1) : users[j].email # email IN
       IF "password" \in DOMAIN users[index] /\ users[index].password = hashPassword(password)
       THEN index ELSE 0

\* filterSafeUpdates removing the password only
filterSafeUpdatesPasswordOnly(updates) ==
  [f \in DOMAIN updates \ {"password"} |-> updates[f]]

\* const { password, role, ...safe } = updates
filterSafeUpdates(updates) ==
  [f \in DOMAIN updates \ {"password", "role"} |-> updates[f]]

\* the users after updateUserData(id, updates)
updateUserData(id, updates) ==
  UpdateRecord(users, id, filterSafeUpdates(updates))

verifyPassword(user, password) ==
  "password" \in DOMAIN user /\ user.password = hashPassword(password)

\* the users after updateUserPassword(id, newPassword)
updateUserPassword(id, newPassword) ==
  UpdateRecord(users, id, [password |-> hashPassword(newPassword)])

\* What the user handlers never touch.
notUsers == <<products, orders, payments, shipments, carts, decremented, age, totals,
              reviews, categories, pending, tree, store>>

\* GET /api/users
ListUsers ==
  /\ sent' = sanitizeUserList(users)
  /\ response' = Reply(200, "Users retrieved")
  /\ UNCHANGED <<users, generated, notUsers>>

\* GET /api/users/:id
GetUser(id) ==
  /\ IF getUserById(id) = 0
     THEN sent' = {} /\ response' = Reply(404, "User not found")
     ELSE /\ sent' = {sanitizeUserData(users[getUserById(id)])}
          /\ response' = Reply(200, "User retrieved")
  /\ UNCHANGED <<users, generated, notUsers>>

\* GET /api/users/:id/orders
GetUserOrders(id) ==
  /\ sent' = {}
  /\ response' = IF getUserById(id) = 0
                 THEN Reply(404, "User not found")
                 ELSE Reply(200, "User orders retrieved")
  /\ UNCHANGED <<users, generated, notUsers>>

\* GET /api/users/:id/addresses
GetUserAddresses(id) ==
  /\ sent' = {}
  /\ response' = IF getUserById(id) = 0
                 THEN Reply(404, "User not found")
                 ELSE Reply(200, "User addresses retrieved")
  /\ UNCHANGED <<users, generated, notUsers>>

\* POST /api/users
CreateUser(body) ==
  IF ~validateUser(body) THEN
    /\ sent' = {}
    /\ response' = Reply(400, "Validation failed")
    /\ UNCHANGED <<users, generated, notUsers>>
  ELSE IF checkEmailExists(body.email) THEN
    /\ sent' = {}
    /\ response' = Reply(409, "Email already exists")
    /\ UNCHANGED <<users, generated, notUsers>>
  ELSE
    /\ generated.users < MaxUsers
    /\ users' = InsertRecord(users, buildUserObject(body))
    /\ generated' = [generated EXCEPT !.users = @ + 1]
    /\ sent' = {sanitizeUserData(users'[Len(users')])}
    /\ response' = Reply(201, "User created successfully")
    /\ UNCHANGED notUsers

\* POST /api/users/login
Login(body) ==
  /\ IF ~("email" \in DOMAIN body /\ body.email # <<>>
          /\ "password" \in DOMAIN body /\ body.password # <<>>)
     THEN sent' = {} /\ response' = Reply(400, "Email and password required")
     ELSE IF authenticateUser(body.email, body.password) = 0
     THEN sent' = {} /\ response' = Reply(401, "Invalid credentials")
     ELSE /\ sent' = {sanitizeUserData(users[authenticateUser(body.email, body.password)])}
          /\ response' = Reply(200, "Login successful")
  /\ UNCHANGED <<users, generated, notUsers>>

\* PUT /api/users/:id
UpdateUser(id, body) ==
  IF getUserById(id) = 0 THEN
    /\ sent' = {}
    /\ response' = Reply(404, "User not found")
    /\ UNCHANGED <<users, generated, notUsers>>
  ELSE
    /\ users' = updateUserData(id, body)
    /\ sent' = {sanitizeUserData(users'[getUserById(id)])}
    /\ response' = Reply(200, "User updated")
    /\ UNCHANGED <<generated, notUsers>>

\* PATCH /api/users/:id/password
ChangePassword(id, body) ==
  IF getUserById(id) = 0 THEN
    /\ sent' = {}
    /\ response' = Reply(404, "User not found")
    /\ UNCHANGED <<users, generated, notUsers>>
  ELSE IF "currentPassword" \notin DOMAIN body THEN
    \* Buffer.from(undefined) throws; the framework answers 500
    /\ sent' = {}
    /\ response' = Reply(500, "Internal Server Error")
    /\ UNCHANGED <<users, generated, notUsers>>
  ELSE IF ~verifyPassword(users[getUserById(id)], body.currentPassword) THEN
    /\ sent' = {}
    /\ response' = Reply(401, "Current password incorrect")
    /\ UNCHANGED <<users, generated, notUsers>>
  ELSE IF "newPassword" \notin DOMAIN body THEN
    /\ sent' = {}
    /\ response' = Reply(500, "Internal Server Error")
    /\ UNCHANGED <<users, generated, notUsers>>
  ELSE
    /\ users' = updateUserPassword(id, body.newPassword)
    /\ sent' = {}
    /\ response' = Reply(200, "Password updated")
    /\ UNCHANGED <<generated, notUsers>>

\* DELETE /api/users/:id
DeleteUser(id) ==
  IF getUserById(id) = 0 THEN
    /\ sent' = {}
    /\ response' = Reply(404, "User not found")
    /\ UNCHANGED <<users, generated, notUsers>>
  ELSE
    /\ users' = DeleteRecord(users, id)
    /\ sent' = {DeleteRecordReturn(users, id)}
    /\ response' = Reply(200, "User deleted")
    /\ UNCHANGED <<generated, notUsers>>

(* -------------------------- category handlers -------------------------- *)

\* name.toLowerCase().replace(/\s+/g, '-').replace(/[^a-z0-9-]/g, ''), for the
\* names the requests carry
generateSlug(name) ==
  CASE name = "Toys" -> "toys"
    [] name = "Garden Tools!" -> "garden-tools"
    [] OTHER -> ""

\* findRecordById('categories', id): the index of the category, 0 for none
getCategoryById(id) == FindIndex(categories, id)

\* products.filter(p => p.categoryId === categoryId).length
countCategoryProducts(categoryId) ==
  Cardinality({ i \in 1..Len(products) :
                  "categoryId" \in DOMAIN products[i] /\ products[i].categoryId = categoryId })

\* !c.parentId
isRootCategory(c) == "parentId" \notin DOMAIN c \/ c.parentId = NoParent

\* getRootCategories taking every category for a root
getRootCategoriesEvery(cs) ==
  [i \in 1..Len(cs) |-> i]

\* categories.filter(c => !c.parentId), as the indices of the categories
getRootCategories(cs) ==
  SelectSeq([i \in 1..Len(cs) |-> i], LAMBDA i : isRootCategory(cs[i]))

\* categories.filter(c => c.parentId === parentId), as indices
findChildCategories(parentId, cs) ==
  SelectSeq([i \in 1..Len(cs) |-> i],
            LAMBDA i : "parentId" \in DOMAIN cs[i] /\ cs[i].parentId = parentId)

validateCategoryData(body) ==
  IF ~validateRequiredField(body, "name")
  THEN [valid |-> FALSE, message |-> "Category name is required"]
  ELSE IF /\ "parentId" \in DOMAIN body
          /\ body.parentId # NoParent
          /\ getCategoryById(body.parentId) = 0
  THEN [valid |-> FALSE, message |-> "Parent category not found"]
  ELSE [valid |-> TRUE, message |-> ""]

buildCategoryObject(body) ==
  [ id |-> generated.categories + 1,
    name |-> body.name,
    description |-> IF "description" \in DOMAIN body THEN body.description ELSE "",
    parentId |-> IF "parentId" \in DOMAIN body THEN body.parentId ELSE NoParent,
    slug |-> generateSlug(body.name) ]

filterCategoryUpdates(updates) ==
  LET safe == [f \in DOMAIN updates \ {"id", "createdAt"} |-> updates[f]] IN
  IF "name" \in DOMAIN safe /\ safe.name # ""
  THEN Spread(safe, [slug |-> generateSlug(safe.name)])
  ELSE safe

\* the categories after updateCategoryData(id, updates)
updateCategoryData(id, updates) ==
  UpdateRecord(categories, id, filterCategoryUpdates(updates))

\* What the category handlers never touch.
notCategories == <<products, orders, payments, shipments, carts, decremented, age, totals,
                   reviews, users, sent, store>>

\* GET /api/categories, GET /api/categories/:id and
\* GET /api/categories/:id/products
GetCategory(id) ==
  /\ pending = <<>>
  /\ response' = IF getCategoryById(id) = 0
                 THEN Reply(404, "Category not found")
                 ELSE Reply(200, "Category retrieved")
  /\ tree' = <<>>
  /\ UNCHANGED <<categories, pending, generated, notCategories>>

\* GET /api/categories/tree: buildCategoryTree maps buildCategoryNode over the
\* roots; with no root the tree is empty and the answer is sent
GetCategoryTree ==
  /\ pending = <<>>
  /\ pending' = getRootCategories(categories)
  /\ tree' = <<>>
  /\ response' = IF pending' = <<>> THEN Reply(200, "Category tree retrieved") ELSE response
  /\ UNCHANGED <<categories, generated, notCategories>>

\* One call of buildCategoryNode, on the category whose turn it is: the node
\* is built and the calls for its children come before the calls still to be
\* made; after the last call the answer is sent.
BuildCategoryNode ==
  /\ pending # <<>>
  /\ Len(tree) < MaxNodes
  /\ tree' = Append(tree, categories[Head(pending)].id)
  /\ pending' = findChildCategories(categories[Head(pending)].id, categories) \o Tail(pending)
  /\ response' = IF pending' = <<>> THEN Reply(200, "Category tree retrieved") ELSE response
  /\ UNCHANGED <<categories, generated, notCategories>>

\* POST /api/categories
CreateCategory(body) ==
  /\ pending = <<>>
  /\ tree' = <<>>
  /\ IF ~validateCategoryData(body).valid THEN
       /\ response' = Reply(400, validateCategoryData(body).message)
       /\ UNCHANGED <<categories, pending, generated, notCategories>>
     ELSE
       /\ generated.categories < MaxCategories
       /\ categories' = InsertRecord(categories, buildCategoryObject(body))
       /\ generated' = [generated EXCEPT !.categories = @ + 1]
       /\ response' = Reply(201, "Category created")
       /\ UNCHANGED <<pending, notCategories>>

\* PUT /api/categories/:id
UpdateCategory(id, body) ==
  /\ pending = <<>>
  /\ tree' = <<>>
  /\ IF getCategoryById(id) = 0 THEN
       /\ response' = Reply(404, "Category not found")
       /\ UNCHANGED <<categories, pending, generated, notCategories>>
     ELSE
       /\ categories' = updateCategoryData(id, body)
       /\ response' = Reply(200, "Category updated")
       /\ UNCHANGED <<pending, generated, notCategories>>

\* DELETE /api/categories/:id
DeleteCategory(id) ==
  /\ pending = <<>>
  /\ tree' = <<>>
  /\ IF getCategoryById(id) = 0 THEN
       /\ response' = Reply(404, "Category not found")
       /\ UNCHANGED <<categories, pending, generated, notCategories>>
     ELSE IF countCategoryProducts(id) > 0 THEN
       /\ response' = Reply(400, "Cannot delete category with products")
       /\ UNCHANGED <<categories, pending, generated, notCategories>>
     ELSE
       /\ categories' = DeleteRecord(categories, id)
       /\ response' = Reply(200, "Category deleted")
       /\ UNCHANGED <<pending, generated, notCategories>>

(* ------------------------------ pricing -------------------------------- *)

\* Amounts are exact: a price, a tax and a shipping cost are whole cents, a
\* discounted amount is in hundredths of a cent, a weight is in hundredths of
\* a unit.  A field an item does not carry is absent from its record.
CentiCents == 100

\* Math.round(value * 100) / 100 of a non-negative value given as the
\* fraction num / den of a cent: the nearest cent, a half going up.
roundToDecimals(num, den) == (2 * num + den) \div (2 * den)

\* (price * percent) / 100, in hundredths of a cent
calculateDiscountAmount(price, percent) == price * percent

\* if (!discountPercent) return price
applyDiscount(price, item) ==
  IF "discountPercent" \notin DOMAIN item \/ item.discountPercent = 0
  THEN price * CentiCents
  ELSE price * CentiCents - calculateDiscountAmount(price, item.discountPercent)

\* item.price || 0 and item.quantity || 1
calculateItemTotal(item) ==
  LET price == IF "price" \in DOMAIN item THEN item.price ELSE 0
      quantity == IF "quantity" \notin DOMAIN item \/ item.quantity = 0
                  THEN 1 ELSE item.quantity
  IN applyDiscount(price, item) * quantity

RECURSIVE calculateSubtotal(_)
calculateSubtotal(items) ==
  IF items = <<>> THEN 0
  ELSE calculateItemTotal(Head(items)) + calculateSubtotal(Tail(items))

\* percent
getTaxRate == 8

\* roundToDecimals(subtotal * taxRate, 2), in cents
calculateTax(subtotal) ==
  roundToDecimals(subtotal * getTaxRate, 100 * CentiCents)

\* item.weight || 0.5
RECURSIVE calculateTotalWeight(_)
calculateTotalWeight(items) ==
  IF items = <<>> THEN 0
  ELSE (IF "weight" \notin DOMAIN Head(items) \/ Head(items).weight = 0
        THEN 50 ELSE Head(items).weight)
       + calculateTotalWeight(Tail(items))

\* cents
getBaseShippingRate == 599

\* roundToDecimals(baseRate + weight * 0.5, 2), in cents
calculateWeightBasedShipping(weight, baseRate) ==
  roundToDecimals(2 * baseRate + weight, 2)

calculateShippingCost(items) ==
  calculateWeightBasedShipping(calculateTotalWeight(items), getBaseShippingRate)

\* rawTotal is in hundredths of a cent
computeFinalTotal(subtotal, tax, shipping) ==
  [ subtotal |-> subtotal, tax |-> tax, shipping |-> shipping,
    rawTotal |-> subtotal + tax * CentiCents + shipping * CentiCents ]

calculateTotal(items) ==
  computeFinalTotal(calculateSubtotal(items), calculateTax(calculateSubtotal(items)),
                    calculateShippingCost(items))

\* A call of calculateTotal(items).
CalculateTotal(items) ==
  /\ totals' = [items |-> items, result |-> calculateTotal(items)]
  /\ UNCHANGED <<products, orders, payments, shipments, carts, decremented, age, response,
                 reviews, users, sent, categories, pending, tree, generated, store>>

(* ------------------------------ requests ------------------------------- *)

Item(p, q) == [productId |-> p, quantity |-> q]

GoodAddress == [street |-> "1 Main St", city |-> "Springfield", zipCode |-> "12345"]

BadAddress == [street |-> "1 Main St", city |-> "Springfield"]

OrderBody(items) == [userId |-> "u1", items |-> items, shippingAddress |-> GoodAddress]

\* Bodies validateOrder rejects: no user, no items, an empty item list, a bad
\* or missing address.
InvalidOrderBodies ==
  { [userId |-> "", items |-> <<Item(1, 1)>>, shippingAddress |-> GoodAddress],
    [userId |-> "u1", shippingAddress |-> GoodAddress],
    OrderBody(<<>>),
    [userId |-> "u1", items |-> <<Item(1, 1)>>, shippingAddress |-> BadAddress],
    [userId |-> "u1", items |-> <<Item(1, 1)>>] }

\* Item lists of order requests: two lines for one product, lines for two
\* products, a line for a product that was never stored.
ItemLists ==
  { <<Item(1, 1), Item(1, 1)>>,
    <<Item(1, 2), Item(2, 1)>>,
    <<Item(2, 1), Item(3, 1)>> }

OrderBodies == { OrderBody(l) : l \in ItemLists } \cup InvalidOrderBodies

\* Bodies of PUT /api/orders/:id: any subset of the fields below, the status
\* one of OrderUpdateStatuses.
OrderUpdateFields ==
  [ id |-> 0, createdAt |-> "client", status |-> "delivered", items |-> <<Item(2, 1)>> ]

OrderUpdateStatuses == {"delivered"} \cup InheritedProperties

OrderUpdates ==
  { [f \in D |-> IF f = "status" THEN st ELSE OrderUpdateFields[f]] :
      D \in SUBSET DOMAIN OrderUpdateFields, st \in OrderUpdateStatuses }

\* Ids of requests: every id an order can have, and one more.
OrderIds == 1..(MaxOrders + 1)

RequestedStatuses == OrderStatuses \cup {"refunded"}

ProductIds == { SeedProductIds[i] : i \in 1..Len(SeedProductIds) } \cup UnknownProductId

StockInputs == (0 - 1)..MaxStock

ProductUpdates ==
  { [stock |-> s] : s \in StockInputs } \cup { [name |-> "Mouse"] }

(* ------------------------ the order lifecycle -------------------------- *)

Next ==
  \/ \E body \in {OrderBody(<<Item(1, 1)>>), OrderBody(<<>>)} : CreateOrder(body)
  \/ \E id \in OrderIds, updates \in OrderUpdates : UpdateOrder(id, updates)
  \/ \E id \in OrderIds, status \in RequestedStatuses : PatchOrderStatus(id, status)
  \/ \E id \in OrderIds : CancelOrder(id)

Spec == Init /\ [][Next]_vars

(* ------------------------- orders and stock ---------------------------- *)

StockNext ==
  \/ \E body \in OrderBodies : CreateOrder(body)
  \/ \E id \in OrderIds : CancelOrder(id)
  \/ \E id \in ProductIds, updates \in ProductUpdates : UpdateProduct(id, updates)
  \/ \E id \in ProductIds, quantity \in StockInputs : PatchProductStock(id, quantity)
  \/ \E id \in ProductIds : DeleteProduct(id)

SpecStock == Init /\ [][StockNext]_vars

(* ------------------- orders, payments and shipments ------------------- *)

\* Requests of this specification address the first order or an id no order
\* has; the orders created after the first stand by.
FulfilmentOrderIds == {1, MaxOrders + 1}

PaymentBodies ==
  UNION { { [orderId |-> id, method |-> "paypal", amount |-> 10],
            [orderId |-> id, method |-> "credit_card", amount |-> 10,
             cardNumber |-> Chars("4", 12), expiryDate |-> [month |-> 12, year |-> 30],
             cvv |-> Chars("1", 3)],
            [orderId |-> id, method |-> "cash", amount |-> 10],
            [orderId |-> id, method |-> "paypal", amount |-> 0] } : id \in FulfilmentOrderIds }
  \cup { [method |-> "paypal", amount |-> 10] }

ShipmentBodies ==
  UNION { { [orderId |-> id, carrier |-> "ups"], [orderId |-> id] } : id \in FulfilmentOrderIds }
  \cup { [carrier |-> "ups"] }

ShipmentIds == 1..(MaxShipments + 1)

ShipmentStatusBodies ==
  { [status |-> "picked_up", location |-> "Warehouse"],
    [status |-> "in_transit", location |-> "Hub"],
    [status |-> "delivered"] }

\* The status update that reports the delivery.
DeliveryBodies == { [status |-> "delivered"] }

FulfilmentNext ==
  \/ \E body \in {OrderBody(<<Item(1, 1)>>)} : CreateOrder(body)
  \/ \E id \in FulfilmentOrderIds, updates \in {[status |-> "delivered"], [status |-> "cancelled"], [userId |-> "u2"]} :
        UpdateOrder(id, updates)
  \/ \E id \in FulfilmentOrderIds, status \in RequestedStatuses : PatchOrderStatus(id, status)
  \/ \E id \in FulfilmentOrderIds : CancelOrder(id)
  \/ \E body \in PaymentBodies : ProcessPayment(body)
  \/ \E body \in ShipmentBodies : CreateShipment(body)
  \/ \E id \in ShipmentIds, body \in DeliveryBodies : PatchShipmentStatus(id, body)

SpecFulfilment == Init /\ [][FulfilmentNext]_vars

(* ----------------------------- shipments ------------------------------- *)

\* Orders are placed, cancelled and shipped, and the shipments' statuses updated.
ShippingNext ==
  \/ \E body \in {OrderBody(<<Item(1, 1)>>)} : CreateOrder(body)
  \/ \E id \in FulfilmentOrderIds : CancelOrder(id)
  \/ \E body \in ShipmentBodies : CreateShipment(body)
  \/ \E id \in ShipmentIds, body \in ShipmentStatusBodies : PatchShipmentStatus(id, body)

SpecShipping == Init /\ [][ShippingNext]_vars

(* ------------------------------ pricing -------------------------------- *)

\* Line items: a price of 10.00 or 3.33, a quantity of 0, 1 or 2, no discount
\* or 15 percent, no weight or a weight of 0 or 1.
LineItems ==
  { [f \in D |-> [price |-> p, quantity |-> q, discountPercent |-> 15, weight |-> w][f]] :
      D \in { {"price", "quantity"} \cup O : O \in SUBSET {"discountPercent", "weight"} },
      p \in {1000, 333}, q \in 0..2, w \in {0, 100} }

RECURSIVE LineItemLists(_)
LineItemLists(n) ==
  IF n = 0 THEN { <<>> }
  ELSE LineItemLists(n - 1) \cup
       { Append(l, i) : l \in { k \in LineItemLists(n - 1) : Len(k) = n - 1 }, i \in LineItems }

PricingNext ==
  \E items \in LineItemLists(MaxLines) : CalculateTotal(items)

SpecPricing == Init /\ [][PricingNext]_vars

(* ------------------------------- carts --------------------------------- *)

\* Every cart request is made for the first user; the second user asks for the
\* cart, clears it, removes from it and checks out.
CartUsers == {"u1", "u2"}

CartShoppers == {"u1"}

CartQuantities == 1..MaxStock

CartItemBodies == [productId : ProductIds, quantity : CartQuantities]

CartUpdateQuantities == 0..MaxStock

\* The stock of the second product is set and the product deleted while it is
\* in a cart; the first product stays as seeded.
CartStockProducts == ProductIds \ {SeedProductIds[1]}

CartStockInputs == 0..MaxStock

CartNext ==
  \/ \E userId \in CartUsers : GetCart(userId)
  \/ \E userId \in CartShoppers, body \in CartItemBodies : AddCartItem(userId, body)
  \/ \E userId \in CartShoppers, productId \in ProductIds, quantity \in CartUpdateQuantities :
        UpdateCartItem(userId, productId, quantity)
  \/ \E userId \in CartUsers, productId \in ProductIds : RemoveCartItem(userId, productId)
  \/ \E userId \in CartUsers : ClearCart(userId)
  \/ \E userId \in CartUsers : Checkout(userId)
  \/ \E id \in CartStockProducts, quantity \in CartStockInputs : PatchProductStock(id, quantity)
  \/ \E id \in CartStockProducts : DeleteProduct(id)

SpecCart == Init /\ [][CartNext]_vars

(* ------------------------------ payments ------------------------------- *)

\* Card numbers: 16 digits; 12 digits in four groups, 16 characters in all;
\* 13 digits among 20 characters.
CardNumbers ==
  { Chars("4", 16), Chars("4", 12) \o Chars("-", 4), Chars("4", 13) \o Chars("-", 7) }

\* Expiry dates: years from now, the current month, long past.
ExpiryDates ==
  { [month |-> 12, year |-> 30], [month |-> 11, year |-> 26], [month |-> 1, year |-> 20] }

CVVs == { Chars("1", 3), Chars("1", 4), Chars("1", 2), Chars("1", 2) \o Chars("a", 1) }

\* Card payments for the first order: every card number, expiry date and CVV
\* with the other two fields good, and each of the three fields left out.
CardPaymentBodies ==
  LET good == [orderId |-> 1, method |-> "credit_card", amount |-> 10,
               cardNumber |-> Chars("4", 16), expiryDate |-> [month |-> 12, year |-> 30],
               cvv |-> Chars("1", 3)]
  IN { [good EXCEPT !.cardNumber = n] : n \in CardNumbers }
     \cup { [good EXCEPT !.expiryDate = e] : e \in ExpiryDates }
     \cup { [good EXCEPT !.cvv = c, !.method = "debit_card"] : c \in CVVs }
     \cup { [f \in DOMAIN good \ {g} |-> good[f]] : g \in {"cardNumber", "expiryDate", "cvv"} }

PaymentRequestBodies == PaymentBodies \cup CardPaymentBodies

PaymentNext ==
  \/ \E body \in {OrderBody(<<Item(1, 1)>>)} : CreateOrder(body)
  \/ \E id \in FulfilmentOrderIds : CancelOrder(id)
  \/ \E body \in PaymentRequestBodies : ProcessPayment(body)

SpecPayment == Init /\ [][PaymentNext]_vars

(* ------------------------------ refunds -------------------------------- *)

\* Payments of 10.00 for the first order, and one for an order never created.
RefundPaymentBodies ==
  { [orderId |-> id, method |-> "paypal", amount |-> 10] : id \in FulfilmentOrderIds }

PaymentIds == 1..(MaxPayments + 1)

\* Refund requests: no amount, an amount of 0, the payment's amount and more
\* than the payment's.
RefundBodies == { <<>> } \cup { [amount |-> a] : a \in {0, 10, 11} }

RefundNext ==
  \/ \E body \in {OrderBody(<<Item(1, 1)>>)} : CreateOrder(body)
  \/ \E body \in RefundPaymentBodies : ProcessPayment(body)
  \/ \E id \in PaymentIds, body \in RefundBodies : RefundPayment(id, body)
  \/ Tick

SpecRefund == Init /\ [][RefundNext]_vars

(* ------------------------------ reviews -------------------------------- *)

ReviewUsers == {"u1", "u2", NumberZero}

\* Review requests for the first product: a rating of 3.7 or of 6, from every
\* user; and requests with no userId, an empty userId, no productId, no rating.
ReviewBodies ==
  { [userId |-> u, productId |-> SeedProductIds[1], rating |-> r] :
      u \in ReviewUsers, r \in {37, 60} }
  \cup { [productId |-> SeedProductIds[1], rating |-> 37],
         [userId |-> "", productId |-> SeedProductIds[1], rating |-> 37],
         [userId |-> "u1", rating |-> 37],
         [userId |-> "u1", productId |-> SeedProductIds[1]] }

ReviewIds == 1..(MaxReviews + 1)

\* Review updates: a rating of 2 or of 6; another user and content.
ReviewUpdates ==
  { [rating |-> 20], [rating |-> 60], [userId |-> "u1", content |-> "edited"] }

ReviewNext ==
  \/ \E id \in ReviewIds : GetReview(id)
  \/ \E body \in ReviewBodies : CreateReview(body)
  \/ \E id \in ReviewIds, body \in ReviewUpdates : UpdateReview(id, body)
  \/ \E id \in ReviewIds : DeleteReview(id)
  \/ \E id \in ReviewIds : MarkReviewHelpful(id)

SpecReview == Init /\ [][ReviewNext]_vars

(* --------------------------- the record store -------------------------- *)

\* Ids the callers give: two ids, the second also generated by the store when
\* no id is given.
StoreIds == 1..(Len(StoreGivenIds) + 1)

\* Data inserted: a name, with or without an id.
StoreData ==
  { [name |-> "a"] } \cup { [id |-> StoreGivenIds[i], name |-> "b"] : i \in 1..Len(StoreGivenIds) }

\* Fields updated: a name; a stock and an updatedAt of the caller.
StoreUpdates ==
  { [name |-> "c"], [stock |-> 1, updatedAt |-> "client"] }

StoreNext ==
  \/ \E data \in StoreData : StoreInsert(data)
  \/ \E id \in StoreIds, updates \in StoreUpdates : StoreUpdate(id, updates)
  \/ \E id \in StoreIds : StoreDelete(id)

SpecStore == Init /\ [][StoreNext]_vars

(* ======================= the record store claim ======================== *)

\* C24: updateRecord and deleteRecord with an id no record has return null and
\* leave the collection as it was.  deleteRecord with an id a record has
\* removes the first record of that id and no other, returns it, and keeps the
\* other records in their order.  updateRecord with an id a record has changes
\* the first record of that id and no other: the record gets the fields given,
\* keeps its other fields, updatedAt apart, and is what the call returns.
C24_UpdateAndDeleteByIdOnly ==
  [][\A id \in StoreIds :
       LET records == store.records
           index == FindIndex(records, id)
           after == store'.records IN
       /\ StoreDelete(id) =>
            IF index = 0
            THEN store'.returned = Null /\ after = records
            ELSE /\ store'.returned = records[index]
                 /\ Len(after) = Len(records) - 1
                 /\ \A i \in 1..Len(after) :
                      after[i] = IF i < index THEN records[i] ELSE records[i + 1]
       /\ \A updates \in StoreUpdates :
            StoreUpdate(id, updates) =>
              IF index = 0
              THEN store'.returned = Null /\ after = records
              ELSE /\ store'.returned = after[index]
                   /\ Len(after) = Len(records)
                   /\ \A i \in 1..Len(records) : i # index => after[i] = records[i]
                   /\ DOMAIN after[index] =
                        DOMAIN records[index] \cup DOMAIN updates \cup {"updatedAt"}
                   /\ \A f \in DOMAIN updates \ {"updatedAt"} :
                        after[index][f] = updates[f]
                   /\ \A f \in DOMAIN records[index] \ (DOMAIN updates \cup {"updatedAt"}) :
                        after[index][f] = records[index][f]]_vars

\* C24 witness: the collection held two records of one id and a record of
\* another, and the call just made removed the first of the two and returned it.
C24_Witness ==
  /\ Len(store.records) = 2
  /\ store.returned # Null
  /\ store.returned.id = store.records[1].id
  /\ store.returned.id # store.records[2].id
  /\ "name" \in DOMAIN store.returned
  /\ store.returned \notin { store.records[i] : i \in 1..Len(store.records) }

(* ------------------------------- users --------------------------------- *)

\* Requests to create a user: the address of a seeded user, a new address or
\* text that is no address, with a password of 8 or of 7 characters; a request
\* that also asks for the role admin; a request with no name.
UserBodies ==
  { [email |-> e, name |-> "Ann", password |-> p] :
      e \in {JohnEmail, AnnEmail, NoEmail}, p \in {Chars("p", 8), Chars("p", 7)} }
  \cup { [email |-> AnnEmail, name |-> "Ann", password |-> Chars("p", 8), role |-> "admin"],
         [email |-> AnnEmail, password |-> Chars("p", 8)] }

UserIds == 1..(MaxUsers + 1)

\* Updates of a user: the address of a seeded user; a name with the role admin
\* and a password.
UserUpdates ==
  { [email |-> JohnEmail],
    [name |-> "Mallory", role |-> "admin", password |-> Chars("q", 8)] }

LoginBodies ==
  { [email |-> AnnEmail, password |-> p] : p \in {Chars("p", 8), Chars("q", 8)} }
  \cup { [email |-> JohnEmail, password |-> Chars("p", 8)], [email |-> AnnEmail] }

PasswordBodies ==
  { [currentPassword |-> Chars("p", 8), newPassword |-> Chars("q", 8)],
    [currentPassword |-> Chars("q", 8), newPassword |-> Chars("p", 8)],
    [currentPassword |-> Chars("p", 8)],
    [newPassword |-> Chars("q", 8)] }

UserNext ==
  \/ ListUsers
  \/ \E id \in UserIds : GetUser(id)
  \/ \E id \in UserIds : GetUserOrders(id)
  \/ \E id \in UserIds : GetUserAddresses(id)
  \/ \E body \in UserBodies : CreateUser(body)
  \/ \E body \in LoginBodies : Login(body)
  \/ \E id \in UserIds, body \in UserUpdates : UpdateUser(id, body)
  \/ \E id \in UserIds, body \in PasswordBodies : ChangePassword(id, body)
  \/ \E id \in UserIds : DeleteUser(id)

SpecUser == Init /\ [][UserNext]_vars

(* ========================== the user claims ============================ *)

\* C27: no two stored users have the same email address, and a create request
\* with the email address of a stored user is answered 409, the users
\* unchanged.
C27_EmailsUnique ==
  [][/\ \A i, j \in 1..Len(users') : users'[i].email = users'[j].email => i = j
     /\ \A body \in UserBodies :
          (/\ CreateUser(body)
           /\ \E i \in 1..Len(users) : users[i].email = body.email)
          => response'.status \in {400, 409} /\ users' = users]_vars

\* C28: no user record in the data of a response of the user routes has a
\* password field.
C28_NoPasswordInResponses ==
  \A user \in sent : "password" \notin DOMAIN user

\* C29: in every step of the user routes, every user stored after the step
\* either was stored before it, under the same id and with the same role, or
\* is the one user the step added, at the end, with the role customer.
C29_RoleFixed ==
  [][\A j \in 1..Len(users') :
       \/ \E i \in 1..Len(users) :
            users[i].id = users'[j].id /\ users[i].role = users'[j].role
       \/ /\ Len(users') = Len(users) + 1
          /\ j = Len(users')
          /\ users'[j].role = "customer"]_vars

\* C29 witness: a user the create route stored was updated by the request
\* that names the role admin, has just changed its password, and has the role
\* customer.
C29_Witness ==
  \E i \in 1..Len(users) :
    /\ users[i].name = "Mallory"
    /\ "password" \in DOMAIN users[i]
    /\ users[i].password = hashPassword(Chars("q", 8))
    /\ users[i].role = "customer"
    /\ response = Reply(200, "Password updated")

(* ----------------------------- categories ------------------------------ *)

CategoryIds == 1..(MaxCategories + 1)

\* Requests to create a category: with no parent, with the first category or
\* a category not stored as parent, with no name.
CategoryBodies ==
  { [name |-> "Toys"], [description |-> "no name"] }
  \cup { [name |-> "Garden Tools!", parentId |-> p] : p \in {1, MaxCategories + 1} }

\* Updates of a category: each id a category can have as parent, the
\* category's own included; a name and no parent.
CategoryUpdates ==
  { [parentId |-> p] : p \in 1..MaxCategories } \cup { [name |-> "Toys", parentId |-> NoParent] }

CategoryNext ==
  \/ \E id \in CategoryIds : GetCategory(id)
  \/ GetCategoryTree
  \/ BuildCategoryNode
  \/ \E body \in CategoryBodies : CreateCategory(body)
  \/ \E id \in CategoryIds, body \in CategoryUpdates : UpdateCategory(id, body)
  \/ \E id \in CategoryIds : DeleteCategory(id)

\* buildCategoryTree runs to its end without yielding: a call of
\* buildCategoryNode that is due is made.
SpecCategory == Init /\ [][CategoryNext]_vars /\ WF_vars(BuildCategoryNode)

(* ======================== the category claim =========================== *)

\* C30: building the category tree ends, whatever parentId links the updates
\* have made, and no category is in the tree twice: whenever calls of
\* buildCategoryNode are due, a state follows in which none is, and the ids of
\* the nodes built are always different from one another.
C30_TreeBuildingEnds ==
  /\ (pending # <<>>) ~> (pending = <<>>)
  /\ [](\A i, j \in 1..Len(tree) : tree[i] = tree[j] => i = j)

\* C30 witness: two categories are each the parent of the other, and the
\* tree just built holds the third as its one node.
C30_Witness ==
  /\ \E i, j \in 1..Len(categories) :
       /\ i # j
       /\ "parentId" \in DOMAIN categories[i] /\ categories[i].parentId = categories[j].id
       /\ "parentId" \in DOMAIN categories[j] /\ categories[j].parentId = categories[i].id
  /\ pending = <<>>
  /\ Len(tree) = 1
  /\ response = Reply(200, "Category tree retrieved")

(* ========================= the review claims =========================== *)

\* C22: no two stored reviews have the same userId and the same productId, and
\* a create request whose userId and productId are those of a stored review is
\* answered 409, the reviews unchanged.
C22_OneReviewPerUserAndProduct ==
  [][/\ \A i, j \in 1..Len(reviews') :
          (/\ reviews'[i].userId = reviews'[j].userId
           /\ reviews'[i].productId = reviews'[j].productId) => i = j
     /\ \A body \in ReviewBodies :
          (/\ CreateReview(body)
           /\ validateReviewData(body).valid
           /\ \E i \in 1..Len(reviews) :
                reviews[i].userId = body.userId /\ reviews[i].productId = body.productId)
          => response'.status = 409 /\ reviews' = reviews]_vars

\* C23: every stored review has a rating from 1 to 5.
C23_RatingFromOneToFive ==
  \A i \in 1..Len(reviews) :
    reviews[i].rating >= 1 * Tenths /\ reviews[i].rating <= 5 * Tenths

(* ========================= the shipment claims ========================= *)

\* C20: the tracking events of a shipment are append-only. No step removes a
\* shipment, and no step changes a stored shipment's tracking events except by
\* adding events at the end, so the events before the step are a prefix of the
\* events after it; a shipment a step adds has exactly one event, of status
\* created; a status update of a stored shipment leaves its events as they
\* were with exactly one event added at the end, of the status requested.
C20_TrackingEventsAppendOnly ==
  [][/\ Len(shipments') >= Len(shipments)
     /\ \A i \in 1..Len(shipments) :
          /\ shipments'[i].id = shipments[i].id
          /\ Len(shipments'[i].trackingEvents) >= Len(shipments[i].trackingEvents)
          /\ SubSeq(shipments'[i].trackingEvents, 1, Len(shipments[i].trackingEvents))
               = shipments[i].trackingEvents
     /\ \A i \in (Len(shipments) + 1)..Len(shipments') :
          /\ Len(shipments'[i].trackingEvents) = 1
          /\ shipments'[i].trackingEvents[1].status = "created"
     /\ \A i \in 1..Len(shipments), body \in ShipmentStatusBodies :
          PatchShipmentStatus(shipments[i].id, body) =>
            /\ Len(shipments'[i].trackingEvents) = Len(shipments[i].trackingEvents) + 1
            /\ shipments'[i].trackingEvents[Len(shipments'[i].trackingEvents)].status = body.status
            /\ \A j \in 1..Len(shipments) :
                 j # i => shipments'[j].trackingEvents = shipments[j].trackingEvents]_vars

\* C20 witness: a shipment holds three events, the first of status created,
\* and the last request was a status update.
C20_Witness ==
  /\ \E i \in 1..Len(shipments) :
       /\ Len(shipments[i].trackingEvents) >= 3
       /\ shipments[i].trackingEvents[1].status = "created"
  /\ response = Reply(200, "Shipment status updated")

\* C21: a status update of a stored shipment to delivered sets the
\* shippingStatus of the shipment's order to delivered and changes no other
\* order; a status update to another value leaves the orders unchanged; and
\* neither a shipment creation nor a status update adds or removes an order or
\* changes an order's status or items.
C21_ShipmentOpsTouchOnlyShippingStatus ==
  [][/\ \A i \in 1..Len(shipments), body \in ShipmentStatusBodies :
          PatchShipmentStatus(shipments[i].id, body) =>
            IF body.status = "delivered"
            THEN /\ \E j \in 1..Len(orders) : orders[j].id = shipments[i].orderId
                 /\ \A j \in 1..Len(orders) :
                      IF orders[j].id = shipments[i].orderId
                      THEN orders'[j].shippingStatus = "delivered"
                      ELSE orders'[j] = orders[j]
            ELSE orders' = orders
     /\ (\/ \E body \in ShipmentBodies : CreateShipment(body)
         \/ \E id \in ShipmentIds, body \in ShipmentStatusBodies : PatchShipmentStatus(id, body))
        => /\ Len(orders') = Len(orders)
           /\ \A j \in 1..Len(orders) :
                /\ orders'[j].id = orders[j].id
                /\ orders'[j].status = orders[j].status
                /\ orders'[j].items = orders[j].items]_vars

\* C21 witness: a cancelled order, still cancelled, has shipping status
\* delivered after the status update just made to its shipment.
C21_Witness ==
  /\ \E k \in 1..Len(orders) :
       /\ orders[k].status = "cancelled"
       /\ "shippingStatus" \in DOMAIN orders[k]
       /\ orders[k].shippingStatus = "delivered"
       /\ \E i \in 1..Len(shipments) :
            shipments[i].orderId = orders[k].id /\ shipments[i].status = "delivered"
  /\ response = Reply(200, "Shipment status updated")

(* ========================= the payment claim =========================== *)

DigitCount(string) ==
  Cardinality({ i \in 1..Len(string) :
                  string[i] \in {"0", "1", "2", "3", "4", "5", "6", "7", "8", "9"} })

\* The card fields are as section 4.3 asks: a number of 13 to 19 digits once
\* what is not a digit is dropped, an expiry month after the current one, a
\* CVV of 3 or 4 digits.
CardFieldsGood(body) ==
  /\ {"cardNumber", "expiryDate", "cvv"} \subseteq DOMAIN body
  /\ DigitCount(body.cardNumber) \in 13..19
  /\ \A now \in ThisMonth : 12 * body.expiryDate.year + body.expiryDate.month > now
  /\ Len(body.cvv) \in 3..4 /\ DigitCount(body.cvv) = Len(body.cvv)

PaymentPasses(body) ==
  /\ {"orderId", "method", "amount"} \subseteq DOMAIN body
  /\ body.method \in {"credit_card", "debit_card", "paypal", "bank_transfer"}
  /\ body.amount > 0
  /\ \E i \in 1..Len(orders) : orders[i].id = body.orderId
  /\ body.method \in {"credit_card", "debit_card"} => CardFieldsGood(body)

\* C19: a payment request that passes validation for a stored order appends
\* one payment, completed, to the payments and sets the order's paymentStatus
\* to paid; a request that fails field validation, names an order not stored
\* or, for a card method, has a bad card number, expiry date or CVV is
\* rejected, the payments and the orders unchanged.
C19_PaymentStoredOnlyWhenValid ==
  [][\A body \in PaymentRequestBodies :
       ProcessPayment(body) =>
         IF PaymentPasses(body)
         THEN /\ response'.status = 201
              /\ Len(payments') = Len(payments) + 1
              /\ SubSeq(payments', 1, Len(payments)) = payments
              /\ payments'[Len(payments')].status = "completed"
              /\ payments'[Len(payments')].orderId = body.orderId
              /\ \A i \in 1..Len(orders) :
                   IF orders[i].id = body.orderId
                   THEN orders'[i].paymentStatus = "paid"
                   ELSE orders'[i] = orders[i]
         ELSE /\ response'.status \in {400, 404}
              /\ UNCHANGED <<payments, orders>>]_vars

\* C19 witness: a card payment is stored, and the last request, a card payment
\* too, was rejected for its card number.
C19_Witness ==
  /\ \E i \in 1..Len(payments) : payments[i].method = "credit_card"
  /\ response = Reply(400, "Invalid card number")

(* ========================= the refund claims =========================== *)

C18_RefundAmountLimit ==
  [][\A index \in 1..Len(payments), body \in RefundBodies :
       ( /\ RefundPayment(payments[index].id, body)
         /\ payments[index].status = "completed" /\ age[index] < 31 * TicksPerDay ) =>
         IF "amount" \in DOMAIN body /\ body.amount > payments[index].amount
         THEN /\ response'.status = 400
              /\ payments'[index].status = "completed"
         ELSE /\ response'.status = 200
              /\ payments'[index].status = "refunded"]_vars

\* C18 witness: a completed payment whose refund was just rejected for its
\* amount.
C18_Witness ==
  /\ \E i \in 1..Len(payments) : payments[i].status = "completed"
  /\ response = Reply(400, "Refund amount exceeds payment amount")

(* ========================== the cart claims ============================ *)

\* The lines of the user's cart, none when the user has no cart.
CartLines(cs, userId) ==
  IF \E i \in 1..Len(cs) : cs[i].userId = userId
  THEN cs[CHOOSE i \in 1..Len(cs) : cs[i].userId = userId].items
  ELSE <<>>

LinesFor(lines, productId) ==
  { k \in 1..Len(lines) : lines[k].productId = productId }

\* C12: no cart ever holds two lines for one product, and an accepted request
\* to add quantity q2 of a product the cart holds with quantity q1 leaves the
\* cart with one line for the product, its quantity q1 + q2.
C12_OneLinePerProduct ==
  [][/\ \A c \in 1..Len(carts') : \A p \in ProductIds :
          Cardinality(LinesFor(carts'[c].items, p)) <= 1
     /\ \A userId \in CartUsers, body \in CartItemBodies :
          LET before == CartLines(carts, userId)
              after == CartLines(carts', userId)
          IN ( /\ AddCartItem(userId, body)
               /\ response'.status = 200
               /\ LinesFor(before, body.productId) # {} ) =>
               /\ Len(after) = Len(before)
               /\ \A k \in LinesFor(before, body.productId) :
                    /\ after[k].productId = body.productId
                    /\ after[k].quantity = before[k].quantity + body.quantity]_vars

\* C12 witness: the last request added to a cart a product it held, and the
\* line holds more than one request can ask for.
C12_Witness ==
  /\ response = Reply(200, "Item added to cart")
  /\ \E c \in 1..Len(carts) : \E k \in 1..Len(carts[c].items) :
       carts[c].items[k].quantity > MaxStock

\* C13: a checkout request is answered 400, nothing changed, when the user has
\* no cart or an empty one, or when some line of the cart names a product no
\* longer stored or asks more than the product's stock at that moment; any
\* other checkout request succeeds.
C13_CheckoutRevalidates ==
  [][\A userId \in CartUsers :
       Checkout(userId) =>
         LET lines == CartLines(carts, userId) IN
         IF \/ lines = <<>>
            \/ \E k \in 1..Len(lines) :
                 \/ ~\E i \in 1..Len(products) : products[i].id = lines[k].productId
                 \/ \E i \in 1..Len(products) :
                      /\ products[i].id = lines[k].productId
                      /\ lines[k].quantity > products[i].stock
         THEN response'.status = 400 /\ UNCHANGED <<products, carts, orders>>
         ELSE response' = Reply(200, "Ready for checkout")]_vars

\* C13 witness: a cart whose first line is for the first product, in stock,
\* and whose second line asks more than is left of the second product; the
\* checkout was rejected for stock.
C13_Witness ==
  /\ response = Reply(400, "Insufficient stock for")
  /\ \E c \in 1..Len(carts) :
       /\ Len(carts[c].items) = 2
       /\ carts[c].items[1].productId = 1
       /\ \E i \in 1..Len(products) :
            products[i].id = 1 /\ products[i].stock >= carts[c].items[1].quantity

\* C14: after a successful checkout the user's cart has no items.
C14_CheckoutClearsCart ==
  [][\A userId \in CartUsers :
       (Checkout(userId) /\ response'.status = 200) =>
         CartLines(carts', userId) = <<>>]_vars

\* C15: for a stored product, a cart update with a quantity <= 0 leaves the
\* carts as removing the product from the user's cart would leave them; with
\* a quantity > 0 that the product's stock covers, the user's cart then has
\* one line for the product, its quantity the requested one, whether or not
\* the cart had a line for the product.
C15_UpdateSetsOrRemoves ==
  [][\A userId \in CartShoppers, productId \in ProductIds, quantity \in CartUpdateQuantities :
       ( /\ UpdateCartItem(userId, productId, quantity)
         /\ \E i \in 1..Len(products) : products[i].id = productId ) =>
         IF quantity <= 0
         THEN carts' = removeCartItem(carts, userId, productId)
         ELSE (\E i \in 1..Len(products) :
                 products[i].id = productId /\ quantity <= products[i].stock) =>
              \E k \in 1..Len(CartLines(carts', userId)) :
                /\ LinesFor(CartLines(carts', userId), productId) = {k}
                /\ CartLines(carts', userId)[k].quantity = quantity]_vars

\* C16: the carts collection holds at most one cart for each user.
C16_OneCartPerUser ==
  \A i, j \in 1..Len(carts) : carts[i].userId = carts[j].userId => i = j

\* C16 witness: both users have a cart, one of them holds lines, and the last
\* request cleared the other.
C16_Witness ==
  /\ Len(carts) = 2
  /\ \E c \in 1..Len(carts) : carts[c].items # <<>>
  /\ response = Reply(200, "Cart cleared")

\* C26: after an accepted request to add a product to a cart, no line of the
\* user's cart for the product has a quantity above the product's stock; a
\* request for a quantity above the stock is answered 400, the carts unchanged.
C26_AddedLineWithinStock ==
  [][\A userId \in CartShoppers, body \in CartItemBodies :
       (/\ AddCartItem(userId, body)
        /\ \E i \in 1..Len(products) : products[i].id = body.productId) =>
         LET stock == products[CHOOSE i \in 1..Len(products) :
                                 products[i].id = body.productId].stock IN
         IF body.quantity > stock
         THEN response'.status = 400 /\ carts' = carts
         ELSE /\ response'.status = 200
              /\ \A k \in LinesFor(CartLines(carts', userId), body.productId) :
                   CartLines(carts', userId)[k].quantity <= stock]_vars

(* ========================= the pricing claim =========================== *)

RECURSIVE ClaimedSubtotal(_)
ClaimedSubtotal(items) ==
  IF items = <<>> THEN 0
  ELSE LET i == Head(items)
           d == IF "discountPercent" \in DOMAIN i THEN i.discountPercent ELSE 0
       IN i.price * (100 - d) * i.quantity + ClaimedSubtotal(Tail(items))

RECURSIVE ClaimedWeight(_)
ClaimedWeight(items) ==
  IF items = <<>> THEN 0
  ELSE (IF "weight" \in DOMAIN Head(items) THEN Head(items).weight ELSE 50)
       + ClaimedWeight(Tail(items))

\* The nearest whole number to num / den, a half going up.
Nearest(num, den) ==
  CHOOSE n \in 0..(num + 1) :
    2 * den * n <= 2 * num + den /\ 2 * num + den < 2 * den * (n + 1)

\* C11: for every list of line items, calculateTotal returns subtotal = the sum
\* of price * (1 - discount/100) * quantity, tax = subtotal * 0.08 to the
\* nearest cent, shipping = 5.99 + 0.5 * (the sum of the weights, an absent
\* weight counting 0.5) to the nearest cent, and rawTotal = their sum.
C11_TotalsAsStated ==
  totals # <<>> =>
    LET items == totals.items
        subtotal == ClaimedSubtotal(items)
        tax == Nearest(subtotal * 8, 10000)
        shipping == Nearest(2 * 599 + ClaimedWeight(items), 2)
    IN totals.result = [ subtotal |-> subtotal, tax |-> tax, shipping |-> shipping,
                         rawTotal |-> subtotal + 100 * tax + 100 * shipping ]

(* ======================= the order lifecycle claims ==================== *)

\* The transition table as section 4.3 of the specification states it.
ClaimedTransitions ==
  { <<"pending", "confirmed">>, <<"pending", "cancelled">>,
    <<"confirmed", "processing">>, <<"confirmed", "cancelled">>,
    <<"processing", "shipped">>, <<"processing", "cancelled">>,
    <<"shipped", "delivered">> }

stores == <<products, orders, payments, shipments, carts>>

\* C1: PATCH /api/orders/:id/status on a stored order succeeds, setting the
\* requested status, exactly when (current status, requested status) is in the
\* transition table; any other request, one for the current status or for an
\* unknown status included, is answered 400 "Invalid status transition" and
\* changes no record.
C1_TransitionTableDecides ==
  [][\A id \in OrderIds, status \in RequestedStatuses :
       LET index == FindIndex(orders, id) IN
       (index # 0 /\ PatchOrderStatus(id, status)) =>
         IF <<orders[index].status, status>> \in ClaimedTransitions
         THEN /\ response'.status = 200
              /\ orders'[index].status = status
         ELSE /\ response' = Reply(400, "Invalid status transition")
              /\ UNCHANGED stores]_vars

\* C2: every change of a stored order's status is a move the transition table
\* allows, whichever operation makes it.
C2_StatusChangesFollowTable ==
  [][\A i \in 1..Len(orders) :
       orders'[i].status # orders[i].status =>
         <<orders[i].status, orders'[i].status>> \in ClaimedTransitions]_vars

\* C3: PUT /api/orders/:id on a stored order is rejected, the order unchanged,
\* unless the order is pending or confirmed; an accepted update keeps the
\* order's id, createdAt and status whatever the body holds.
C3_UpdateKeepsIdCreatedAtStatus ==
  [][\A id \in OrderIds, updates \in OrderUpdates :
       LET index == FindIndex(orders, id) IN
       (index # 0 /\ UpdateOrder(id, updates)) =>
         IF orders[index].status \in {"pending", "confirmed"}
         THEN /\ orders'[index].id = orders[index].id
              /\ orders'[index].createdAt = orders[index].createdAt
              /\ orders'[index].status = orders[index].status
         ELSE /\ response'.status = 400
              /\ UNCHANGED orders]_vars

\* C7: POST /api/orders/:id/cancel on a stored order is accepted, the order
\* becoming cancelled, only when the order is pending, confirmed or processing;
\* for a shipped, delivered or cancelled order it is answered 400 and changes
\* no order and no product, so a repeated cancellation restores nothing.
C7_CancelOnlyWhenCancellable ==
  [][\A id \in OrderIds :
       LET index == FindIndex(orders, id) IN
       (index # 0 /\ CancelOrder(id)) =>
         IF orders[index].status \in {"pending", "confirmed", "processing"}
         THEN /\ response'.status = 200
              /\ orders'[index].status = "cancelled"
         ELSE /\ response' = Reply(400, "Order cannot be cancelled")
              /\ UNCHANGED stores]_vars

\* C7 witness: every stored order is cancelled and the last request, a
\* cancellation of one of them, was rejected.
C7_Witness ==
  /\ orders # <<>>
  /\ \A i \in 1..Len(orders) : orders[i].status = "cancelled"
  /\ response = Reply(400, "Order cannot be cancelled")

\* The quantity of product p over the lines of an item list.
RECURSIVE TotalQuantity(_, _)
TotalQuantity(items, p) ==
  IF items = <<>> THEN 0
  ELSE (IF Head(items).productId = p THEN Head(items).quantity ELSE 0)
       + TotalQuantity(Tail(items), p)

\* C8: an accepted cancellation raises every product's stock by the amount the
\* order's creation lowered it, whatever was done to the order in between.
C8_CancelRestoresWhatCreationTook ==
  [][\A id \in OrderIds :
       LET index == FindIndex(orders, id) IN
       (index # 0 /\ CancelOrder(id) /\ response'.status = 200) =>
         /\ Len(products') = Len(products)
         /\ \A k \in 1..Len(products) :
              products'[k].stock - products[k].stock
                = TotalQuantity(decremented[index], products[k].id)]_vars

\* C9: no operation changes the items of a stored order.
C9_ItemsImmutable ==
  [][\A i \in 1..Len(orders) : orders'[i].items = orders[i].items]_vars

\* C25: a cancel request or a status request that moves a stored order into
\* the status cancelled raises the stock of every product by the quantity the
\* order's items have of it.
C25_EveryCancellationRestocks ==
  [][\A id \in OrderIds :
       LET index == FindIndex(orders, id) IN
       (/\ index # 0
        /\ CancelOrder(id) \/ \E status \in RequestedStatuses : PatchOrderStatus(id, status)
        /\ orders[index].status # "cancelled"
        /\ orders'[index].status = "cancelled") =>
         /\ Len(products') = Len(products)
         /\ \A k \in 1..Len(products) :
              products'[k].stock - products[k].stock
                = TotalQuantity(orders[index].items, products[k].id)]_vars

(* ========================= the stock claims ============================ *)

ProductStored(p) == \E k \in 1..Len(products) : products[k].id = p

StockOf(p) == products[CHOOSE k \in 1..Len(products) : products[k].id = p].stock

\* C4: an order request with an item whose product is not stored, or whose
\* quantity exceeds that product's stock, is answered 400; no order is
\* inserted and no product changes.
C4_ValidateBeforeMutate ==
  [][\A body \in OrderBodies :
       ( /\ CreateOrder(body)
         /\ "items" \in DOMAIN body
         /\ \E k \in 1..Len(body.items) :
              \/ ~ProductStored(body.items[k].productId)
              \/ body.items[k].quantity > StockOf(body.items[k].productId) ) =>
         /\ response'.status = 400
         /\ UNCHANGED stores]_vars

\* C4 witness: both seed products are stored and the second is in stock, and
\* the last order request was rejected for a product that is not stored: its
\* line for the missing product came after a line that passed.
C4_Witness ==
  /\ response = Reply(400, "Product not found")
  /\ ProductStored(1) /\ ProductStored(2)
  /\ StockOf(2) >= 1

\* C5: every stored product has stock >= 0.
C5_StockNeverNegative ==
  \A k \in 1..Len(products) : products[k].stock >= 0

\* C6: an accepted order request appends one order, pending, to the orders it
\* found, and lowers each stored product's stock by the total quantity of that
\* product over the request's items; the products the request does not name
\* are unchanged.
C6_CreateInsertsOneAndLowersStock ==
  [][\A body \in OrderBodies :
       (CreateOrder(body) /\ response'.status = 201) =>
         /\ Len(orders') = Len(orders) + 1
         /\ SubSeq(orders', 1, Len(orders)) = orders
         /\ orders'[Len(orders')].status = "pending"
         /\ Len(products') = Len(products)
         /\ \A k \in 1..Len(products) :
              /\ products'[k].id = products[k].id
              /\ products'[k].stock
                   = products[k].stock - TotalQuantity(body.items, products[k].id)
              /\ TotalQuantity(body.items, products[k].id) = 0
                   => products'[k] = products[k]]_vars

\* C6 witness: a second order was just accepted, its two lines both for the
\* first product.
C6_Witness ==
  /\ response = Reply(201, "Order created successfully")
  /\ Len(orders) = 2
  /\ orders[2].items = <<Item(1, 1), Item(1, 1)>>

(* ================= the claims on terminal statuses ===================== *)

\* C10: a delivered or cancelled order keeps its status under every status
\* transition, cancellation, update, payment and shipment request; and an
\* order becomes cancelled only from a status that is not terminal.
C10_TerminalStatusesStay ==
  [][\A i \in 1..Len(orders) :
       /\ orders[i].status \in {"delivered", "cancelled"}
            => orders'[i].status = orders[i].status
       /\ (orders'[i].status = "cancelled" /\ orders[i].status # "cancelled")
            => orders[i].status \in {"pending", "confirmed", "processing", "shipped"}]_vars

\* C10 witness: the first order is cancelled and was since paid for and
\* shipped, the shipment delivered by the last request.
C10_Witness ==
  /\ orders # <<>>
  /\ orders[1].status = "cancelled"
  /\ "paymentStatus" \in DOMAIN orders[1]
  /\ "shippingStatus" \in DOMAIN orders[1] /\ orders[1].shippingStatus = "delivered"
  /\ response = Reply(200, "Shipment status updated")

====
